---- MODULE Spec2Model ----
(***************************************************************************)
(* State-machine model of the hand-off structures of the DAQ:              *)
(*   - RingBuffer (aavs-daq/src/RingBuffer.cpp): the cell ring between the *)
(*     ingress workers (push) and one reassembler thread (pull_timeout /   *)
(*     pull / pull_ready).                                                 *)
(*   - DoubleBuffer (cdaq/DoubleBuffer.cpp): the slot ring between the     *)
(*     correlator reassembler (write_data, write_data_single_channel,      *)
(*     finish_write) and the correlator thread (read_buffer,               *)
(*     release_buffer).                                                    *)
(* Every action is one shared-memory access of the C++ code together with  *)
(* the accesses around it that no other thread can observe: taking a       *)
(* spinlock, reads and writes of data that only the holder of the lock     *)
(* touches, and releasing the lock.                                        *)
(***************************************************************************)
EXTENDS Integers, Naturals, Sequences, FiniteSets, TLC

(***************************************************************************)
(* Bounds of the model.                                                    *)
(***************************************************************************)
\* number of push calls the ingress workers make in total
MaxPush == 4
\* the nofcells argument of the RingBuffer constructor
NofCellsArg == 2
\* number of buffers (single channel) or channels (write_data) the input stream holds
MaxBuffers == 6
\* packets of one buffer: nof_samples / samples
PacketsPerBuffer == 2
\* the samples argument of write_data: samples in one packet
SamplesInPacket == 2
\* number of times the stream departs from steady in-order arrival: a packet that
\* arrives late, or a pause so long that the reassembler calls finish_write
MaxIrregular == 1
\* timestamp of the first sample of the stream, in sample periods
StreamStart == 10
\* largest number of consecutive sleeps of a wait loop that one step of the model takes
SleepRun == 250000
\* packets the tiles send to the continuous channel consumer in total
MaxChanPackets == 40
\* packets of one tile in one buffer of the continuous channel consumer:
\* nof_samples / samples_in_packet
ChanPacketsPerBuffer == 3
\* number of packets of that stream that are held back on their way
MaxHeld == 1
\* largest capture mode value a payload offered to the filters carries (0x11)
MaxMode == 17
\* ports added to the receiver
MaxPorts == 1
\* consumers registered with the receiver
MaxConsumers == 1
\* packets the receive loop of a worker processes
MaxFrames == 2
\* packet periods after which the wire counter of a running transmission wraps
WrapAfter == 6

\* consumer objects in memory at a time, deleted ones with a running thread included
MaxObjects == 1

\* acquisitions counted one after the other
MaxAcquisitions == 2

\* callbacks of the station beam persister
MaxCallbacks == 6

\* how far the buffer counter of a callback lies from the count of the callbacks
BeamWindow == 2

\* buffers per file of the station beam: max_file_size_gb * 2^30 / bytes of a buffer
cutoff_counter == 3

\* bytes of a station beam buffer
buffer_size == 2
\* number of consumer names the client uses at the same time
MaxNames == 2
\* the largest packet counter that arrives at the station raw buffer
MaxCounter == 7
\* the largest buffer_index of a packet that arrives at the antenna buffer
MaxAntBuffer == 3
\* number of packets that arrive at the antenna buffer
MaxAntPackets == 4

VARIABLES
    \* ---- RingBuffer fields
    ring_size,       \* ring_buffer[c].size
    ring_lock,       \* ring_buffer[c].lock: 0 = false, otherwise the holder's thread id
    cell_data,       \* contents of cell_data[c]: the packet copied in by memcpy
    rb_producer,     \* producer
    rb_consumer,     \* consumer
    full_cells,      \* full_cells
    lost,            \* lost
    \* ---- one push call at a time per worker thread
    w_pc,            \* position of the worker inside push
    w_local,         \* local_producer
    w_seq,           \* sequence number of the packet the worker is pushing
    accepted,        \* the packets for which push returned true
    \* ---- the consumer thread
    c_pc,            \* position of the consumer inside pull_timeout / pull / pull_ready
    c_snap,          \* <<data, size>> of the borrowed cell as returned by pull
    pulled,          \* the packets returned by pull / pull_timeout, in order
    \* ---- DoubleBuffer fields
    db_buf,          \* double_buffer[s]: ref_time, index, channel, ready, read_samples, nof_packets
    db_mutex,        \* double_buffer[s].mutex: 0 = unlocked, otherwise the holder's thread id
    db_producer,     \* producer
    db_consumer,     \* consumer
    \* ---- the reassembler thread (producer of the double buffer)
    p_pc,            \* position inside write_data / write_data_single_channel
    p_pkt,           \* arguments of the call: packet_index, timestamp, channel
    p_index,         \* the counter index of the wait loop
    s_next,          \* number of the next packet of the stream
    s_ref,           \* reference_counter of the reassembler, -1 when unset (0 in the code)
    s_irregular,     \* number of late packets and of finish_write calls so far
    p_warned,        \* the call has logged the "Overwriting buffer" warning
    \* ---- the correlator thread (consumer of the double buffer)
    k_pc,            \* "idle", or "reading" between read_buffer and release_buffer
    k_last,          \* ref_time of the buffer read_buffer returned last, -1 before
    k_start,         \* "none" before the first read_buffer call, then "stalled" if that call
                     \* came after the whole stream was written, else "early"
    \* ---- ContinuousChannelisedData fields
    containers,        \* containers[c]: nof_packets, timestamp, tile_map, data
    nof_buffer_skips,  \* nof_buffer_skips
    current_container, \* current_container
    current_buffer,    \* current_buffer
    reference_time,    \* reference_time, 0 when unset
    reference_counter, \* reference_counter, 0 when unset
    rollover_counter,  \* rollover_counter
    num_packets,       \* num_packets
    \* ---- the stream of continuous channel packets
    ch_start,          \* wire counter of the first packet of the stream, -1 before the start
    ch_next,           \* number of the next packet the tiles send
    ch_held,           \* the packets held back on their way
    ch_irregular,      \* number of packets held back so far
    ch_writes,         \* per container, tile row and packet place: writes since the last clear
    ch_last,           \* the packet processed last and what processPacket did with it
    ch_since,          \* boundaries since the last persist_container, -1 before the first
    ch_ended,          \* the stream has ended and threadEntry has called onStreamEnd
    \* ---- the packet filters
    flt_pkt,           \* the payload offered to the filters last
    flt_accept,        \* the consumer types whose filter accepted it
    \* ---- NetworkReceiver fields
    ports,             \* ports[0 .. num_ports - 1]
    filters,           \* filters[0 .. nof_consumers - 1], each named by its consumer type
    lost_packets,      \* lost_packets
    net_frames,        \* number of packets the receive loop has processed
    net_last,          \* the packet processed last, the consumers it was offered to and
                       \* the consumers into whose ring it was pushed
    \* ---- DAQ.cpp globals, and the receiver the global pointer names
    receiver,          \* receiver: 0 = nullptr, 1 = a NetworkReceiver
    orphaned,          \* a NetworkReceiver is running that no pointer names
    stop_thread,       \* receiver->stop_thread
    rw_pc,             \* place of the receive thread
    rw_target,         \* the consumer object whose filter and ring the receive thread is using, 0 = none
    mutex_lock,        \* receiver->mutex_lock: 0 = free, otherwise the holder
    rx_consumers,      \* receiver->consumers, with the consumer object of each entry
    consumers,         \* the consumers map under the one name: 0 = no entry, else the object
    inst,              \* the consumer objects: DataConsumer fields and place of the thread
    api_pc,            \* place of the client's thread
    api_idx,           \* unregisterConsumer: the index found
    script,            \* calls of the acquisition under way that have returned, -1 when
                       \* the client has left the script
    acquisitions,      \* acquisitions completed one after the other
    \* ---- StationRawDoubleBuffer and its two threads
    raw_buffer,        \* double_buffer[s]: sample_index # 0, ready
    raw_mutex,         \* double_buffer[s].mutex: "free" or the thread that locked it
    raw_producer,      \* producer
    raw_consumer,      \* consumer
    raw_elapsed,       \* elapsed_time of the wait loop in write_data
    raw_w_pc,          \* position of the StationRawData thread
    raw_p_pc,          \* position of the StationRawPersister thread
    raw_stop_consumer, \* stop_consumer of the StationRawData consumer
    raw_stop_thread,   \* stop_thread of the StationRawPersister
    \* ---- acquire_station_beam
    skip,              \* skip
    bm_counter,        \* counter
    bm_pos,            \* the position of files[0]
    bm_file,           \* files[0]: the pairs <<offset, buffer counter>> of the buffers in it
    bm_written,        \* write_to_file calls since the file was created
    bm_first,          \* counter when the file was created, -1 before the first file
    bm_foreign,        \* a buffer of another file came since the file was created
    bm_closed,         \* the file closed last: bytes written, foreign; -1 bytes before
    bm_seen,           \* the buffer counters handed over within the window
    bm_last,           \* the last callback: its buffer, counter and file, the offset of
                       \* its write_to_file, -1 when it wrote nothing
    bm_exited,         \* exit_with_error was called
    \* ---- the consumer list of a NetworkReceiver with several consumers
    reg_list,          \* consumers / ring_buffers / filters: the id and the owner of each entry
    reg_cons,          \* the consumers by name: place of the thread, consumerID
    \* ---- StationRawDoubleBuffer, the sample indices
    ri_buf,            \* double_buffer[s]: sample_index, ready
    ri_producer,       \* producer
    ri_consumer,       \* consumer
    ri_last,           \* the last process_data call: its slot and packet_counter - sample_index
    \* ---- AntennaBuffer after the discovery phase
    ant_containers,    \* containers[c]: nof_packets and the buffer_index of the packets in it
    ant_index,         \* current_buffer_index, -1 while current_buffer_index_set is false
    ant_container,     \* current_container
    ant_packets        \* number of packets processed

ringVars == <<ring_size, ring_lock, cell_data, rb_producer, rb_consumer, full_cells, lost,
              w_pc, w_local, w_seq, accepted, c_pc, c_snap, pulled>>

dbVars == <<db_buf, db_mutex, db_producer, db_consumer, p_pc, p_pkt, p_index, s_next, s_ref,
            s_irregular,             p_warned, k_pc, k_last, k_start>>

chanVars == <<containers, nof_buffer_skips, current_container, current_buffer, reference_time,
              reference_counter, rollover_counter, num_packets, ch_start, ch_next, ch_held,
              ch_irregular, ch_writes, ch_last, ch_since, ch_ended>>

filtVars == <<flt_pkt, flt_accept>>

netVars == <<ports, filters, lost_packets, net_frames, net_last>>

\* the NetworkReceiver fields but ports
netRest == <<filters, lost_packets, net_frames, net_last>>

daqVars == <<receiver, orphaned, stop_thread, rw_pc, rw_target, mutex_lock, rx_consumers, consumers, inst,
             api_pc, api_idx, script, acquisitions>>

rawVars == <<raw_buffer, raw_mutex, raw_producer, raw_consumer, raw_elapsed, raw_w_pc,
             raw_p_pc, raw_stop_consumer, raw_stop_thread>>

beamVars == <<skip, bm_counter, bm_pos, bm_file, bm_written, bm_first, bm_foreign, bm_closed,
              bm_seen,
              bm_last, bm_exited>>

regVars == <<reg_list, reg_cons>>

idxVars == <<ri_buf, ri_producer, ri_consumer, ri_last>>

antVars == <<ant_containers, ant_index, ant_container, ant_packets>>

\* the components added last
moreVars == <<regVars, idxVars, antVars>>

vars == <<ringVars, dbVars, chanVars, filtVars, netVars, daqVars, rawVars, beamVars, moreVars>>

(***************************************************************************)
(* RingBuffer                                                              *)
(***************************************************************************)
\* the ingress worker threads that push into the one ring
Workers == {1, 2}

\* thread id of the reassembler thread (the single consumer)
ConsumerTid == 3

RECURSIVE NextPow2From(_, _)
NextPow2From(p, n) == IF p >= n THEN p ELSE NextPow2From(2 * p, n)

\* nof_cells = pow(2, ceil(log2(nofcells)))
nof_cells == NextPow2From(1, NofCellsArg)

Cells == 0..(nof_cells - 1)

\* (i + 1) & (nof_cells - 1), nof_cells being a power of two
NextCell(i) == (i + 1) % nof_cells

\* the k-th packet of worker w
Packet(w, k) == w * 10 + k
PacketWorker(p) == p \div 10
PacketSeq(p) == p % 10

\* data_size of a packet (the UDP payload length): two different lengths occur
DataSize(p) == 1 + (p % 2)

\* number of push calls made so far (finished or under way)
PushCalls == lost + Cardinality(accepted) + Cardinality({w \in Workers : w_pc[w] # "idle"})

RingInit ==
    /\ ring_size = [c \in Cells |-> 0]
    /\ ring_lock = [c \in Cells |-> 0]
    /\ cell_data = [c \in Cells |-> 0]
    /\ rb_producer = 0
    /\ rb_consumer = 0
    /\ full_cells = 0
    /\ lost = 0
    /\ w_pc = [w \in Workers |-> "idle"]
    /\ w_local = [w \in Workers |-> 0]
    /\ w_seq = [w \in Workers |-> 0]
    /\ accepted = {}
    /\ c_pc = "enter"
    /\ c_snap = <<0, 0>>
    /\ pulled = << >>

consVars == <<c_pc, c_snap, pulled>>
workVars == <<w_pc, w_local, w_seq, accepted>>

\* spinlock.Enter(&ring_buffer[c].lock) succeeds: exchange(true) returned false
CellLockFree(c) == ring_lock[c] = 0

\* ---- push ---------------------------------------------------------------
\* a saturation test that is off by one cell
RingSaturated_OffByOne(fc) == fc >= nof_cells - 1

\* the saturation test of push
RingSaturated(fc) == fc = nof_cells

\* line 94-97: if (full_cells == nof_cells) { lost++; return false; }
PushCheck(w) ==
    /\ IF RingSaturated(full_cells)
       THEN /\ lost' = lost + 1
            /\ w_pc' = [w_pc EXCEPT ![w] = "idle"]
       ELSE /\ w_pc' = [w_pc EXCEPT ![w] = "load"]
            /\ UNCHANGED lost
    /\ UNCHANGED <<ring_size, ring_lock, cell_data, rb_producer, rb_consumer, full_cells,
                   w_local, accepted, consVars, dbVars, chanVars, filtVars, netVars, daqVars, rawVars, beamVars, moreVars>>

\* a worker calls push with its next packet and makes the first test of line 94
PushCall(w) ==
    /\ w_pc[w] = "idle"
    /\ PushCalls < MaxPush
    /\ w_seq' = [w_seq EXCEPT ![w] = @ + 1]
    /\ PushCheck(w)

\* the test of line 94 when the while loop comes round again
PushRecheck(w) ==
    /\ w_pc[w] = "check"
    /\ UNCHANGED w_seq
    /\ PushCheck(w)

\* line 99: local_producer = producer.load()
PushLoad(w) ==
    /\ w_pc[w] = "load"
    /\ w_local' = [w_local EXCEPT ![w] = rb_producer]
    /\ w_pc' = [w_pc EXCEPT ![w] = "enter"]
    /\ UNCHANGED <<ring_size, ring_lock, cell_data, rb_producer, rb_consumer, full_cells, lost,
                   w_seq, accepted, consVars, dbVars, chanVars, filtVars, netVars, daqVars, rawVars, beamVars, moreVars>>

\* a push that goes on without having got the lock of its cell
PushMayEnter_NoLock(w) == w \in Workers

\* the condition under which push gets the lock of its cell at line 103
PushMayEnter(w) == CellLockFree(w_local[w])

\* the condition of line 109 under which push gives the cell up
CellOccupied(c) == ring_size[c] > 0

\* line 103-110: spinlock.Enter on the cell; the cell is still full: Leave
PushEnterFull(w) ==
    /\ w_pc[w] = "enter"
    /\ PushMayEnter(w)
    /\ CellOccupied(w_local[w])
    /\ w_pc' = [w_pc EXCEPT ![w] = "skip"]
    /\ UNCHANGED <<ring_size, ring_lock, cell_data, rb_producer, rb_consumer, full_cells, lost,
                   w_local, w_seq, accepted, consVars, dbVars, chanVars, filtVars, netVars, daqVars, rawVars, beamVars, moreVars>>

\* line 113-115: producer = (producer + 1) & (nof_cells - 1) under producer_mutex
PushSkip(w) ==
    /\ w_pc[w] = "skip"
    /\ rb_producer' = NextCell(rb_producer)
    /\ w_pc' = [w_pc EXCEPT ![w] = "check"]
    /\ UNCHANGED <<ring_size, ring_lock, cell_data, rb_consumer, full_cells, lost,
                   w_local, w_seq, accepted, consVars, dbVars, chanVars, filtVars, netVars, daqVars, rawVars, beamVars, moreVars>>

\* line 103-119: spinlock.Enter on the cell; the cell is empty: break, lock held
PushEnterEmpty(w) ==
    /\ w_pc[w] = "enter"
    /\ PushMayEnter(w)
    /\ ~CellOccupied(w_local[w])
    /\ ring_lock' = [ring_lock EXCEPT ![w_local[w]] = w]
    /\ w_pc' = [w_pc EXCEPT ![w] = "copy"]
    /\ UNCHANGED <<ring_size, cell_data, rb_producer, rb_consumer, full_cells, lost,
                   w_local, w_seq, accepted, consVars, dbVars, chanVars, filtVars, netVars, daqVars, rawVars, beamVars, moreVars>>

\* line 123-129: memcpy into the cell, ring_buffer[local_producer].size = data_size,
\* full_cells++
PushCopy(w) ==
    /\ w_pc[w] = "copy"
    /\ cell_data' = [cell_data EXCEPT ![w_local[w]] = Packet(w, w_seq[w])]
    /\ ring_size' = [ring_size EXCEPT ![w_local[w]] = DataSize(Packet(w, w_seq[w]))]
    /\ full_cells' = full_cells + 1
    /\ w_pc' = [w_pc EXCEPT ![w] = "advance"]
    /\ UNCHANGED <<ring_lock, rb_producer, rb_consumer, lost, w_local, w_seq, accepted, consVars,
                   dbVars, chanVars, filtVars, netVars, daqVars, rawVars, beamVars, moreVars>>

\* line 132-140: producer = (producer + 1) & (nof_cells - 1) under producer_mutex,
\* unlock the cell and return true
PushAdvance(w) ==
    /\ w_pc[w] = "advance"
    /\ rb_producer' = NextCell(rb_producer)
    /\ ring_lock' = [ring_lock EXCEPT ![w_local[w]] = 0]
    /\ accepted' = accepted \cup {Packet(w, w_seq[w])}
    /\ w_pc' = [w_pc EXCEPT ![w] = "idle"]
    /\ UNCHANGED <<ring_size, cell_data, rb_consumer, full_cells, lost,
                   w_local, w_seq, consVars, dbVars, chanVars, filtVars, netVars, daqVars, rawVars, beamVars, moreVars>>

\* ---- pull_timeout / pull --------------------------------------------------
\* line 150-156 / 191-197: spinlock.Enter on the consumer's cell; its size is 0: Leave
PullEnterEmpty ==
    /\ c_pc = "enter"
    /\ CellLockFree(rb_consumer)
    /\ ring_size[rb_consumer] = 0
    /\ c_pc' = "empty"
    /\ UNCHANGED <<ring_size, ring_lock, cell_data, rb_producer, rb_consumer, full_cells, lost,
                   workVars, c_snap, pulled, dbVars, chanVars, filtVars, netVars, daqVars, rawVars, beamVars, moreVars>>

\* line 150-182 / 191-220: spinlock.Enter on the consumer's cell; its size is > 0:
\* return the cell and its size, the lock stays held
PullEnterFull ==
    /\ c_pc = "enter"
    /\ CellLockFree(rb_consumer)
    /\ ring_size[rb_consumer] > 0
    /\ ring_lock' = [ring_lock EXCEPT ![rb_consumer] = ConsumerTid]
    /\ c_snap' = <<cell_data[rb_consumer], ring_size[rb_consumer]>>
    /\ pulled' = Append(pulled, cell_data[rb_consumer])
    /\ c_pc' = "hold"
    /\ UNCHANGED <<ring_size, cell_data, rb_producer, rb_consumer, full_cells, lost, workVars, dbVars, chanVars, filtVars, netVars, daqVars, rawVars, beamVars, moreVars>>

\* line 159-162: pull_timeout only: the timeout has elapsed, return SIZE_MAX;
\* the reassembler calls pull_timeout again
PullTimeout ==
    /\ c_pc = "empty"
    /\ c_pc' = "enter"
    /\ UNCHANGED <<ring_size, ring_lock, cell_data, rb_producer, rb_consumer, full_cells, lost,
                   workVars, c_snap, pulled, dbVars, chanVars, filtVars, netVars, daqVars, rawVars, beamVars, moreVars>>

\* line 165-166 / 203-204: full_cells == 0: sleep and try the same cell again
PullSleep ==
    /\ c_pc = "empty"
    /\ full_cells = 0
    /\ c_pc' = "enter"
    /\ UNCHANGED <<ring_size, ring_lock, cell_data, rb_producer, rb_consumer, full_cells, lost,
                   workVars, c_snap, pulled, dbVars, chanVars, filtVars, netVars, daqVars, rawVars, beamVars, moreVars>>

\* line 167-168 / 205-206: full_cells != 0: step over the empty cell
PullStepOver ==
    /\ c_pc = "empty"
    /\ full_cells # 0
    /\ rb_consumer' = NextCell(rb_consumer)
    /\ c_pc' = "enter"
    /\ UNCHANGED <<ring_size, ring_lock, cell_data, rb_producer, full_cells, lost,
                   workVars, c_snap, pulled, dbVars, chanVars, filtVars, netVars, daqVars, rawVars, beamVars, moreVars>>

\* ---- pull_ready -----------------------------------------------------------
\* line 227-230: ring_buffer[consumer].size = 0, then unlock the cell
PullReadyClear ==
    /\ c_pc = "hold"
    /\ ring_size' = [ring_size EXCEPT ![rb_consumer] = 0]
    /\ ring_lock' = [ring_lock EXCEPT ![rb_consumer] = 0]
    /\ c_pc' = "ready"
    /\ UNCHANGED <<cell_data, rb_producer, rb_consumer, full_cells, lost,
                   workVars, c_snap, pulled, dbVars, chanVars, filtVars, netVars, daqVars, rawVars, beamVars, moreVars>>

\* line 233-236: consumer = (consumer + 1) & (nof_cells - 1); full_cells--
PullReadyAdvance ==
    /\ c_pc = "ready"
    /\ rb_consumer' = NextCell(rb_consumer)
    /\ full_cells' = full_cells - 1
    /\ c_pc' = "enter"
    /\ UNCHANGED <<ring_size, ring_lock, cell_data, rb_producer, lost,
                   workVars, c_snap, pulled, dbVars, chanVars, filtVars, netVars, daqVars, rawVars, beamVars, moreVars>>

WorkerStep(w) ==
    \/ PushCall(w)
    \/ PushRecheck(w)
    \/ PushLoad(w)
    \/ PushEnterFull(w)
    \/ PushSkip(w)
    \/ PushEnterEmpty(w)
    \/ PushCopy(w)
    \/ PushAdvance(w)

ConsumerStep ==
    \/ PullEnterEmpty
    \/ PullEnterFull
    \/ PullTimeout
    \/ PullSleep
    \/ PullStepOver
    \/ PullReadyClear
    \/ PullReadyAdvance

(***************************************************************************)
(* DoubleBuffer (cdaq/DoubleBuffer.cpp)                                    *)
(***************************************************************************)
\* default of the constructor's nbuffers argument
nbuffers == 4

\* the slots double_buffer[0 .. nbuffers - 1]
Slots == 0 .. nbuffers - 1

\* thread ids used as mutex holders
ProducerTid == 1

CorrelatorTid == 2

\* the largest double: the ref_time of a slot that has been reset
DBL_MAX == 1000000

\* tim.tv_nsec: the nominal length of one sleep of a wait loop
tv_nsec == 1000

\* limit of the wait loop of write_data_single_channel, in ns
WaitLimitSingle == 1000000

\* limit of the wait loop of write_data, in ns
WaitLimitMulti == 1000000000

\* waited time from which the overwrite warning is logged, in ns
WarnLimit == 1000000

\* the nof_samples argument of the constructor: samples of one buffer
nof_samples == PacketsPerBuffer * SamplesInPacket

\* (producer + 1) % nbuffers
NextSlot(i) == (i + 1) % nbuffers

\* local_producer: (producer == 0) ? nbuffers - 1 : producer - 1
PrevSlot(i) == IF i = 0 THEN nbuffers - 1 ELSE i - 1

\* a slot as the constructor leaves it
FreshSlot == [ref_time |-> 0, index |-> -1, channel |-> -1, ready |-> FALSE,
              read_samples |-> 0, nof_packets |-> 0]

\* a slot as release_buffer and the take over of write_data_single_channel reset it
ResetSlot(ch, idx) == [ref_time |-> DBL_MAX, index |-> idx, channel |-> ch, ready |-> FALSE,
                       read_samples |-> 0, nof_packets |-> 0]

\* 2^k % m, computed without leaving the machine integers
RECURSIVE Pow2Mod(_, _)
Pow2Mod(k, m) == IF k = 0 THEN 1 % m ELSE (2 * Pow2Mod(k - 1, m)) % m

\* reference_counter after a packet with counter n: set by the first packet after
\* construction or finish_write
RefAfter(n) == IF s_ref = -1 THEN n ELSE s_ref

\* packet_index = (packet_counter - reference_counter) % (nof_samples / samples_in_packet),
\* the difference taken in size_t (64 bits, wrapping)
PacketIndex(n, ref) ==
    IF n >= ref THEN (n - ref) % PacketsPerBuffer
    ELSE (Pow2Mod(64, PacketsPerBuffer) + PacketsPerBuffer - ((ref - n) % PacketsPerBuffer))
           % PacketsPerBuffer

\* packet n of the stream as the reassembler hands it to the double buffer: its
\* packet_index, its timestamp and its channel (one channel per buffer length when
\* the stream carries several channels)
StreamPacket(n, multi) ==
    [idx |-> PacketIndex(n, RefAfter(n)),
     ts  |-> StreamStart + n * SamplesInPacket,
     ch  |-> IF multi THEN n \div PacketsPerBuffer ELSE 0]

\* number of the buffer a ref_time belongs to
BufferOf(t) == (t - StreamStart) \div nof_samples

\* the value of p_pkt outside a boundary crossing
NoPacket == [idx |-> 0, ts |-> 0, ch |-> 0]

DBInit ==
    /\ db_buf = [s \in Slots |-> FreshSlot]
    /\ db_mutex = [s \in Slots |-> 0]
    /\ db_producer = 0
    /\ db_consumer = 0
    /\ p_pc = "idle"
    /\ p_pkt = NoPacket
    /\ p_index = 0
    /\ s_next = 0
    /\ s_ref = -1
    /\ s_irregular = 0
    /\ p_warned = FALSE
    /\ k_pc = "idle"
    /\ k_last = -1
    /\ k_start = "none"

\* copy_data: the slot after a packet with timestamp ts was copied into it
CopyData(b, ts) ==
    [b EXCEPT !.read_samples = @ + SamplesInPacket,
              !.nof_packets = @ + 1,
              !.ref_time = IF @ > ts \/ @ = 0 THEN ts ELSE @]

\* the reassembler takes the next packet of the stream, or one that arrives late
\* (a packet of the stream that was overtaken by at least one later packet)
Arrivals(multi) ==
    (IF s_next < MaxBuffers * PacketsPerBuffer
       THEN {<<StreamPacket(s_next, multi), 1, 0, s_next>>} ELSE {})
    \cup
    (IF s_irregular < MaxIrregular
       THEN {<<StreamPacket(n, multi), 0, 1, n>> :
                n \in {m \in 0 .. s_next - 2 : m >= s_next - 1 - PacketsPerBuffer}}
       ELSE {})

prodVars == <<p_pc, p_pkt, p_index, s_next, s_ref, s_irregular, p_warned>>

corrVars == <<k_pc, k_last, k_start>>

\* write_data_single_channel, the packet is older than the slot: copied to the slot before
DbWriteLate ==
    /\ p_pc = "idle"
    /\ \E a \in Arrivals(FALSE) :
         LET pkt == a[1]
             lp  == PrevSlot(db_producer)
         IN /\ db_buf[db_producer].ref_time > pkt.ts
            /\ db_buf' = [db_buf EXCEPT ![lp] = [CopyData(@, pkt.ts) EXCEPT !.index = pkt.idx]]
            /\ s_next' = s_next + a[2]
            /\ s_irregular' = s_irregular + a[3]
            /\ s_ref' = RefAfter(a[4])
    /\ UNCHANGED <<db_mutex, db_producer, db_consumer, p_pc, p_pkt, p_index, p_warned, corrVars,
                   ringVars, chanVars, filtVars, netVars, daqVars, rawVars, beamVars, moreVars>>

\* write_data_single_channel, the slot is empty: the packet opens it
DbWriteOpen ==
    /\ p_pc = "idle"
    /\ \E a \in Arrivals(FALSE) :
         LET pkt == a[1]
         IN /\ ~(db_buf[db_producer].ref_time > pkt.ts)
            /\ db_buf[db_producer].channel = -1
            /\ db_buf' = [db_buf EXCEPT ![db_producer] =
                             CopyData([@ EXCEPT !.channel = pkt.ch, !.index = pkt.idx], pkt.ts)]
            /\ s_next' = s_next + a[2]
            /\ s_irregular' = s_irregular + a[3]
            /\ s_ref' = RefAfter(a[4])
    /\ UNCHANGED <<db_mutex, db_producer, db_consumer, p_pc, p_pkt, p_index, p_warned, corrVars,
                   ringVars, chanVars, filtVars, netVars, daqVars, rawVars, beamVars, moreVars>>

\* the test of line 159: the packet is the first of a buffer after the slot's
Boundary(pkt, b) == pkt.idx = 0 /\ pkt.ts >= b.ref_time + (nof_samples - 1)

\* write_data_single_channel, the packet belongs to the slot: copied
DbWriteInPlace ==
    /\ p_pc = "idle"
    /\ \E a \in Arrivals(FALSE) :
         LET pkt == a[1]
         IN /\ ~(db_buf[db_producer].ref_time > pkt.ts)
            /\ db_buf[db_producer].channel # -1
            /\ ~Boundary(pkt, db_buf[db_producer])
            /\ db_buf' = [db_buf EXCEPT ![db_producer] = CopyData(@, pkt.ts)]
            /\ s_next' = s_next + a[2]
            /\ s_irregular' = s_irregular + a[3]
            /\ s_ref' = RefAfter(a[4])
    /\ UNCHANGED <<db_mutex, db_producer, db_consumer, p_pc, p_pkt, p_index, p_warned, corrVars,
                   ringVars, chanVars, filtVars, netVars, daqVars, rawVars, beamVars, moreVars>>

\* write_data_single_channel, the packet crosses the buffer border: the slot before
\* is marked ready and the producer moves on
DbBoundary ==
    /\ p_pc = "idle"
    /\ \E a \in Arrivals(FALSE) :
         LET pkt == a[1]
             lp  == PrevSlot(db_producer)
         IN /\ ~(db_buf[db_producer].ref_time > pkt.ts)
            /\ db_buf[db_producer].channel # -1
            /\ Boundary(pkt, db_buf[db_producer])
            /\ db_buf' = [db_buf EXCEPT ![lp].ready = IF db_buf[lp].index # -1 THEN TRUE ELSE @]
            /\ p_pkt' = pkt
            /\ s_next' = s_next + a[2]
            /\ s_irregular' = s_irregular + a[3]
            /\ s_ref' = RefAfter(a[4])
    /\ db_producer' = NextSlot(db_producer)
    /\ p_index' = 0
    /\ p_pc' = "wait"
    /\ UNCHANGED <<db_mutex, db_consumer, p_warned, corrVars, ringVars, chanVars, filtVars, netVars, daqVars, rawVars, beamVars, moreVars>>

\* the counter of a wait loop with the given limit after a run of sleeps: the loop
\* ends when index * tv_nsec reaches the limit
AfterSleeps(idx, limit) ==
    IF (idx + SleepRun) * tv_nsec < limit THEN idx + SleepRun ELSE limit \div tv_nsec

\* rounds of the wait loop of lines 175-183: the slot is still in use, sleep
DbWaitSleep ==
    /\ p_pc = "wait"
    /\ p_index * tv_nsec < WaitLimitSingle
    /\ db_buf[db_producer].index # -1
    /\ p_index' = AfterSleeps(p_index, WaitLimitSingle)
    /\ UNCHANGED <<db_buf, db_mutex, db_producer, db_consumer, p_pc, p_pkt, s_next, s_ref, s_irregular,
                   p_warned, corrVars, ringVars, chanVars, filtVars, netVars, daqVars, rawVars, beamVars, moreVars>>

\* the warning of lines 185-186 (and 122-123) is logged
WarnsOverwrite(idx) == idx * tv_nsec >= WarnLimit

\* the wait loop ends: the slot is free or the limit is reached (then the warning)
DbWaitExit ==
    /\ p_pc = "wait"
    /\ ~(p_index * tv_nsec < WaitLimitSingle /\ db_buf[db_producer].index # -1)
    /\ p_warned' = WarnsOverwrite(p_index)
    /\ p_pc' = "lock"
    /\ UNCHANGED <<db_buf, db_mutex, db_producer, db_consumer, p_pkt, p_index, s_next, s_ref, s_irregular,
                   corrVars, ringVars, chanVars, filtVars, netVars, daqVars, rawVars, beamVars, moreVars>>

\* line 189: the producer locks the mutex of its new slot
DbTakeLock ==
    /\ p_pc = "lock"
    /\ db_mutex[db_producer] = 0
    /\ db_mutex' = [db_mutex EXCEPT ![db_producer] = ProducerTid]
    /\ p_pc' = "take"
    /\ UNCHANGED <<db_buf, db_producer, db_consumer, p_pkt, p_index, s_next, s_ref, s_irregular,
                   p_warned, corrVars, ringVars, chanVars, filtVars, netVars, daqVars, rawVars, beamVars, moreVars>>

\* lines 190-196: the slot is reset for the new buffer and the mutex unlocked
DbTakeReset ==
    /\ p_pc = "take"
    /\ db_buf' = [db_buf EXCEPT ![db_producer] = ResetSlot(p_pkt.ch, p_pkt.idx)]
    /\ db_mutex' = [db_mutex EXCEPT ![db_producer] = 0]
    /\ p_pc' = "copy"
    /\ UNCHANGED <<db_producer, db_consumer, p_pkt, p_index, s_next, s_ref, s_irregular,
                   p_warned, corrVars, ringVars, chanVars, filtVars, netVars, daqVars, rawVars, beamVars, moreVars>>

\* line 200 (and 131): the packet that crossed the border is copied into the new slot
DbCopy ==
    /\ p_pc = "copy"
    /\ db_buf' = [db_buf EXCEPT ![db_producer] = CopyData(@, p_pkt.ts)]
    /\ p_pc' = "idle"
    /\ p_pkt' = NoPacket
    /\ p_index' = 0
    /\ p_warned' = FALSE
    /\ UNCHANGED <<db_mutex, db_producer, db_consumer, s_next, s_ref, s_irregular, corrVars, ringVars, chanVars, filtVars, netVars, daqVars, rawVars, beamVars, moreVars>>

\* finish_write, called by the reassembler when the ring gives no packet in time
DbFinishWrite ==
    /\ p_pc = "idle"
    /\ s_irregular < MaxIrregular
    /\ s_irregular' = s_irregular + 1
    /\ s_ref' = -1
    /\ LET lp  == PrevSlot(db_producer)
           b1  == [db_buf EXCEPT ![lp].ready = IF db_buf[lp].channel # -1 THEN TRUE ELSE @]
       IN IF b1[db_producer].channel # -1
            THEN /\ db_buf' = [b1 EXCEPT ![db_producer].ready = TRUE]
                 /\ db_producer' = NextSlot(db_producer)
            ELSE /\ db_buf' = b1
                 /\ db_producer' = db_producer
    /\ UNCHANGED <<db_mutex, db_consumer, p_pc, p_pkt, p_index, s_next, p_warned, corrVars, ringVars, chanVars, filtVars, netVars, daqVars, rawVars, beamVars, moreVars>>

\* the whole stream has been written to the double buffer
StreamWritten == s_next = MaxBuffers * PacketsPerBuffer /\ p_pc = "idle"

\* k_start after a read_buffer call
FirstCall == IF k_start # "none" THEN k_start ELSE IF StreamWritten THEN "stalled" ELSE "early"

\* read_buffer, the consumer's slot is not ready: sleep and return nullptr
DbReadNone ==
    /\ k_pc = "idle"
    /\ ~db_buf[db_consumer].ready
    /\ k_start' = FirstCall
    /\ UNCHANGED <<db_buf, db_mutex, db_producer, db_consumer, prodVars, k_pc, k_last, ringVars, chanVars, filtVars, netVars, daqVars, rawVars, beamVars, moreVars>>

\* read_buffer, the consumer's slot is ready: its address is returned
DbReadBuffer ==
    /\ k_pc = "idle"
    /\ db_buf[db_consumer].ready
    /\ k_pc' = "reading"
    /\ k_last' = db_buf[db_consumer].ref_time
    /\ k_start' = FirstCall
    /\ UNCHANGED <<db_buf, db_mutex, db_producer, db_consumer, prodVars, ringVars, chanVars, filtVars, netVars, daqVars, rawVars, beamVars, moreVars>>

\* release_buffer, line 270: the consumer locks the mutex of its slot
DbReleaseLock ==
    /\ k_pc = "reading"
    /\ db_mutex[db_consumer] = 0
    /\ db_mutex' = [db_mutex EXCEPT ![db_consumer] = CorrelatorTid]
    /\ k_pc' = "release"
    /\ UNCHANGED <<db_buf, db_producer, db_consumer, prodVars, k_last, k_start, ringVars, chanVars, filtVars, netVars, daqVars, rawVars, beamVars, moreVars>>

\* release_buffer, lines 271-280: the slot is reset, the mutex unlocked, consumer advanced
DbReleaseReset ==
    /\ k_pc = "release"
    /\ db_buf' = [db_buf EXCEPT ![db_consumer] = ResetSlot(-1, -1)]
    /\ db_mutex' = [db_mutex EXCEPT ![db_consumer] = 0]
    /\ db_consumer' = NextSlot(db_consumer)
    /\ k_pc' = "idle"
    /\ UNCHANGED <<db_producer, prodVars, k_last, k_start, ringVars, chanVars, filtVars, netVars, daqVars, rawVars, beamVars, moreVars>>

\* write_data, the packet is of a channel before the slot's: copied to the slot before
DbcWriteLate ==
    /\ p_pc = "idle"
    /\ \E a \in Arrivals(TRUE) :
         LET pkt == a[1]
             lp  == PrevSlot(db_producer)
         IN /\ db_buf[db_producer].channel > pkt.ch
            /\ db_buf' = [db_buf EXCEPT ![lp] = CopyData(@, pkt.ts)]
            /\ s_next' = s_next + a[2]
            /\ s_irregular' = s_irregular + a[3]
            /\ s_ref' = RefAfter(a[4])
    /\ UNCHANGED <<db_mutex, db_producer, db_consumer, p_pc, p_pkt, p_index, p_warned, corrVars,
                   ringVars, chanVars, filtVars, netVars, daqVars, rawVars, beamVars, moreVars>>

\* write_data, the slot is empty: the packet opens it
DbcWriteOpen ==
    /\ p_pc = "idle"
    /\ \E a \in Arrivals(TRUE) :
         LET pkt == a[1]
         IN /\ db_buf[db_producer].channel = -1
            /\ db_buf' = [db_buf EXCEPT ![db_producer] = CopyData([@ EXCEPT !.channel = pkt.ch], pkt.ts)]
            /\ s_next' = s_next + a[2]
            /\ s_irregular' = s_irregular + a[3]
            /\ s_ref' = RefAfter(a[4])
    /\ UNCHANGED <<db_mutex, db_producer, db_consumer, p_pc, p_pkt, p_index, p_warned, corrVars,
                   ringVars, chanVars, filtVars, netVars, daqVars, rawVars, beamVars, moreVars>>

\* write_data, the packet is of the slot's channel: copied
DbcWriteInPlace ==
    /\ p_pc = "idle"
    /\ \E a \in Arrivals(TRUE) :
         LET pkt == a[1]
         IN /\ db_buf[db_producer].channel = pkt.ch
            /\ db_buf' = [db_buf EXCEPT ![db_producer] = CopyData(@, pkt.ts)]
            /\ s_next' = s_next + a[2]
            /\ s_irregular' = s_irregular + a[3]
            /\ s_ref' = RefAfter(a[4])
    /\ UNCHANGED <<db_mutex, db_producer, db_consumer, p_pc, p_pkt, p_index, p_warned, corrVars,
                   ringVars, chanVars, filtVars, netVars, daqVars, rawVars, beamVars, moreVars>>

\* write_data, the packet is of a later channel: the slot before is marked ready and
\* the producer moves on
DbcBoundary ==
    /\ p_pc = "idle"
    /\ \E a \in Arrivals(TRUE) :
         LET pkt == a[1]
             lp  == PrevSlot(db_producer)
         IN /\ db_buf[db_producer].channel # -1
            /\ db_buf[db_producer].channel < pkt.ch
            /\ db_buf' = [db_buf EXCEPT ![lp].ready = IF db_buf[lp].channel # -1 THEN TRUE ELSE @]
            /\ p_pkt' = pkt
            /\ s_next' = s_next + a[2]
            /\ s_irregular' = s_irregular + a[3]
            /\ s_ref' = RefAfter(a[4])
    /\ db_producer' = NextSlot(db_producer)
    /\ p_index' = 0
    /\ p_pc' = "wait_m"
    /\ UNCHANGED <<db_mutex, db_consumer, p_warned, corrVars, ringVars, chanVars, filtVars, netVars, daqVars, rawVars, beamVars, moreVars>>

\* rounds of the wait loop of lines 112-120: the slot is still in use, sleep
DbcWaitSleep ==
    /\ p_pc = "wait_m"
    /\ p_index * tv_nsec < WaitLimitMulti
    /\ db_buf[db_producer].channel # -1
    /\ p_index' = AfterSleeps(p_index, WaitLimitMulti)
    /\ UNCHANGED <<db_buf, db_mutex, db_producer, db_consumer, p_pc, p_pkt, s_next, s_ref, s_irregular,
                   p_warned, corrVars, ringVars, chanVars, filtVars, netVars, daqVars, rawVars, beamVars, moreVars>>

\* the wait loop ends (with the warning when it waited long), and lines 126-127 start
\* using the slot, without its mutex
DbcWaitExit ==
    /\ p_pc = "wait_m"
    /\ ~(p_index * tv_nsec < WaitLimitMulti /\ db_buf[db_producer].channel # -1)
    /\ p_warned' = WarnsOverwrite(p_index)
    /\ db_buf' = [db_buf EXCEPT ![db_producer].channel = p_pkt.ch,
                                ![db_producer].read_samples = 0]
    /\ p_pc' = "copy"
    /\ UNCHANGED <<db_mutex, db_producer, db_consumer, p_pkt, p_index, s_next, s_ref, s_irregular, corrVars,
                   ringVars, chanVars, filtVars, netVars, daqVars, rawVars, beamVars, moreVars>>

\* the correlator thread: read_buffer, then the correlation, then release_buffer
CorrelatorStep ==
    \/ DbReadNone
    \/ DbReadBuffer
    \/ DbReleaseLock
    \/ DbReleaseReset

\* the reassembler writing a single channel stream
WriterStep ==
    \/ DbWriteLate
    \/ DbWriteOpen
    \/ DbWriteInPlace
    \/ DbBoundary
    \/ DbWaitSleep
    \/ DbWaitExit
    \/ DbTakeLock
    \/ DbTakeReset
    \/ DbCopy
    \/ DbFinishWrite

\* the reassembler writing a stream of several channels
WriterChanStep ==
    \/ DbcWriteLate
    \/ DbcWriteOpen
    \/ DbcWriteInPlace
    \/ DbcBoundary
    \/ DbcWaitSleep
    \/ DbcWaitExit
    \/ DbCopy
    \/ DbFinishWrite

(***************************************************************************)
(* ContinuousChannelisedData (ChannelisedData.cpp) and its rotating         *)
(* ChannelDataContainer objects (ChannelisedData.h).  Time is counted in    *)
(* packet periods (samples_in_packet * 1.08e-6 s), so that one buffer of    *)
(* nof_samples lasts ChanPacketsPerBuffer units.                            *)
(***************************************************************************)
\* nof_containers
nof_containers == 4

\* the nof_tiles item of the configuration
nof_tiles == 2

\* 0xFFFFFF + 1: the heap counter item carries 24 bits of packet counter
CounterMod == 16777216

\* start_time when the acquisition starts at once
start_time == -1

\* the values of nof_buffer_skips the consumer is configured with
SkipConfigs == {0, 1, 3}

\* the wire counter of the first packet: the transmission runs already and wraps
\* WrapAfter packet periods later
StartCounters == {CounterMod - WrapAfter}

\* a packet held back on its way arrives at most this many packets late, or never:
\* a little more than one buffer
LateWindow == ChanPacketsPerBuffer * nof_tiles + 2

\* the held packets that can still arrive when packet k is the next of the stream
StillHeld(held, k) == {h \in held : k - h <= LateWindow}

Containers == 0 .. nof_containers - 1
TileRows == 0 .. nof_tiles - 1
PacketSlots == 0 .. ChanPacketsPerBuffer - 1

\* nof_samples * 1.08e-6, in packet periods
BufferTime == ChanPacketsPerBuffer

\* memset(channel_data[i].data, 0, ...) for every tile
ZeroData == [i \in TileRows |-> [s \in PacketSlots |-> 0]]

\* a container as its constructor leaves it
FreshContainer == [nof_packets |-> 0, timestamp |-> DBL_MAX, tile_map |-> <<>>,
                   data |-> ZeroData]

\* tile_map.find(tile) != tile_map.end()
TileKnown(b, tile) == \E i \in 1 .. Len(b.tile_map) : b.tile_map[i] = tile

\* tile_index of add_data: the row of a known tile, else the next free row
TileIndex(b, tile) ==
    IF TileKnown(b, tile)
    THEN (CHOOSE i \in 1 .. Len(b.tile_map) : b.tile_map[i] = tile) - 1
    ELSE Len(b.tile_map)

\* add_data returns without writing: an unknown tile and no free row
TileRejected(b, tile) == ~TileKnown(b, tile) /\ Len(b.tile_map) = nof_tiles

\* ChannelDataContainer::add_data of one packet: samples of the packet go to the packet's
\* place (start_sample_index = packet_index * samples_in_packet) of the tile's row
add_data(b, tile, slot, payload, timestamp) ==
    IF TileRejected(b, tile) THEN b
    ELSE [b EXCEPT !.tile_map = IF TileKnown(b, tile) THEN @ ELSE Append(@, tile),
                   !.data[TileIndex(b, tile)][slot] = payload,
                   !.timestamp = IF @ > timestamp THEN timestamp ELSE @,
                   !.nof_packets = @ + 1]

\* ChannelDataContainer::clear
clear(b) == [b EXCEPT !.data = ZeroData, !.timestamp = DBL_MAX, !.nof_packets = 0]

\* packet k of the stream: the tiles send one packet each per packet period
ChanPacket(k) ==
    [tile_id |-> k % nof_tiles, pol_id |-> 0,
     packet_counter |-> (ch_start + (k \div nof_tiles)) % CounterMod,
     packet_time |-> StreamStart + (k \div nof_tiles),
     payload |-> k + 1]

\* the packet on which the rollover is counted
Pivot(pkt) == pkt.tile_id = 0 /\ pkt.packet_counter = 0 /\ pkt.pol_id = 0

\* the rollover handling of processPacket: reference_counter, rollover_counter and
\* packet_counter after it
Rollover(pkt, ref, roll) ==
    IF ref = 0
    THEN [reference_counter |-> pkt.packet_counter, rollover_counter |-> roll,
          packet_counter |-> pkt.packet_counter]
    ELSE IF Pivot(pkt)
    THEN [reference_counter |-> ref, rollover_counter |-> roll + 1,
          packet_counter |-> pkt.packet_counter + (roll + 1) * CounterMod]
    ELSE IF pkt.packet_counter = 0
    THEN [reference_counter |-> ref, rollover_counter |-> roll,
          packet_counter |-> pkt.packet_counter + CounterMod]
    ELSE [reference_counter |-> ref, rollover_counter |-> roll,
          packet_counter |-> pkt.packet_counter + roll * CounterMod]

\* packet_index = (packet_counter - reference_counter) % (nof_samples / samples_in_packet),
\* the difference taken in unsigned long (64 bits)
ChanPacketIndex(counter, ref) ==
    IF counter >= ref THEN (counter - ref) % ChanPacketsPerBuffer
    ELSE (Pow2Mod(64, ChanPacketsPerBuffer) + ChanPacketsPerBuffer
            - ((ref - counter) % ChanPacketsPerBuffer)) % ChanPacketsPerBuffer

\* the index without the step back
PrevContainer_Current(cc) == cc % nof_containers

\* (current_container - 1) % nof_containers, the difference taken in unsigned int (32 bits)
PrevContainer(cc) ==
    IF cc = 0 THEN (Pow2Mod(32, nof_containers) + nof_containers - 1) % nof_containers
    ELSE (cc - 1) % nof_containers

\* (current_container + 1) % nof_containers
NextContainer(cc) == (cc + 1) % nof_containers

\* current_buffer after a boundary
NextBuffer(cb) == IF nof_buffer_skips # 0 THEN (cb + 1) % nof_buffer_skips ELSE 0

\* the test "Check if we skipped buffer boundaries"
BoundaryTrigger(pkt, idx, ref_time) ==
    /\ idx = 0
    /\ pkt.packet_time >= ref_time + BufferTime
    /\ num_packets > nof_tiles * 2
    /\ pkt.tile_id = 0
    /\ pkt.pol_id = 0

\* the container the consumer leaves, whatever the configuration
PersistedAt_Left(cc) == cc

\* the container persisted when a boundary turns the containers: the one the consumer
\* leaves when buffers are skipped, else the one it moves to
PersistedAt(cc) == IF nof_buffer_skips # 0 THEN cc ELSE NextContainer(cc)

\* ch_last before the first packet
NoChanPacket == [k |-> -1, packet_counter |-> -1, packet_index |-> -1, late |-> FALSE,
                 fires |-> FALSE, persisted |-> -1, target |-> -1]

ChanInit ==
    /\ containers = [c \in Containers |-> FreshContainer]
    /\ nof_buffer_skips = 0
    /\ current_container = 0
    /\ current_buffer = 0
    /\ reference_time = 0
    /\ reference_counter = 0
    /\ rollover_counter = 0
    /\ num_packets = 0
    /\ ch_start = -1
    /\ ch_next = 0
    /\ ch_held = {}
    /\ ch_irregular = 0
    /\ ch_writes = [c \in Containers |-> ZeroData]
    /\ ch_last = NoChanPacket
    /\ ch_since = -1
    /\ ch_ended = FALSE

\* ContinuousChannelisedData::processPacket for packet k of the stream
ProcessPacket(k) ==
    LET pkt == ChanPacket(k)
        r == Rollover(pkt, reference_counter, rollover_counter)
        idx == ChanPacketIndex(r.packet_counter, r.reference_counter)
        ref_t == IF reference_time = 0 THEN pkt.packet_time ELSE reference_time
        late == pkt.packet_time < ref_t
        fires == ~late /\ BoundaryTrigger(pkt, idx, ref_t)
        cb == IF fires THEN NextBuffer(current_buffer) ELSE current_buffer
        turns == fires /\ cb = 0
        cc == IF turns THEN NextContainer(current_container) ELSE current_container
        pc == PersistedAt(current_container)
        persists == turns /\ containers[pc].nof_packets > 0
        cleared == IF persists THEN [containers EXCEPT ![pc] = clear(@)] ELSE containers
        wiped == IF persists THEN [ch_writes EXCEPT ![pc] = ZeroData] ELSE ch_writes
        prev == PrevContainer(current_container)
        target == IF late THEN (IF nof_buffer_skips = 0 THEN prev ELSE -1)
                  ELSE IF cb # 0 THEN -1 ELSE cc
        written == target # -1 /\ ~TileRejected(cleared[target], pkt.tile_id)
    IN  IF start_time > 0 /\ pkt.packet_time < start_time
        THEN /\ ch_last' = [k |-> k, packet_counter |-> -1, packet_index |-> -1,
                            late |-> FALSE, fires |-> FALSE, persisted |-> -1, target |-> -1]
             /\ UNCHANGED <<containers, current_container, current_buffer, reference_time,
                            reference_counter, rollover_counter, num_packets, ch_writes,
                            ch_since>>
        ELSE /\ reference_counter' = r.reference_counter
             /\ rollover_counter' = r.rollover_counter
             /\ reference_time' = IF turns THEN ref_t + BufferTime ELSE ref_t
             /\ current_buffer' = cb
             /\ current_container' = cc
             /\ num_packets' = IF late \/ cb # 0 THEN num_packets
                               ELSE IF turns THEN 1 ELSE num_packets + 1
             /\ containers' = IF target = -1 THEN cleared
                              ELSE [cleared EXCEPT ![target] =
                                       add_data(@, pkt.tile_id, idx, pkt.payload, pkt.packet_time)]
             /\ ch_writes' = IF written
                             THEN [wiped EXCEPT ![target][TileIndex(cleared[target], pkt.tile_id)][idx]
                                                   = @ + 1]
                             ELSE wiped
             /\ ch_last' = [k |-> k, packet_counter |-> r.packet_counter, packet_index |-> idx,
                            late |-> late, fires |-> fires,
                            persisted |-> IF persists THEN pc ELSE -1,
                            target |-> IF written THEN target ELSE -1]
             /\ ch_since' = IF persists THEN 0
                           ELSE IF fires /\ ch_since # -1 THEN ch_since + 1 ELSE ch_since

\* initialiseConsumer reads nof_buffer_skips from the configuration; the stream the
\* consumer is started on begins at some wire counter
InitialiseConsumer ==
    /\ ch_start = -1
    /\ nof_buffer_skips' \in SkipConfigs
    /\ containers' = [c \in Containers |-> FreshContainer]
    /\ ch_start' \in StartCounters
    /\ UNCHANGED <<current_container, current_buffer, reference_time, reference_counter,
                   rollover_counter, num_packets, ch_next, ch_held, ch_irregular, ch_ended, ch_writes,
                   ch_last, ch_since, ringVars, dbVars, filtVars, netVars, daqVars, rawVars, beamVars, moreVars>>

\* the next packet of the stream arrives and is processed
ChanDeliver ==
    /\ ch_start # -1
    /\ ch_next < MaxChanPackets
    /\ ProcessPacket(ch_next)
    /\ ch_next' = ch_next + 1
    /\ ch_held' = StillHeld(ch_held, ch_next + 1)
    /\ UNCHANGED <<nof_buffer_skips, ch_start, ch_irregular, ch_ended, ringVars, dbVars, filtVars, netVars, daqVars, rawVars, beamVars, moreVars>>

\* the next packet of the stream is held back on its way: it arrives late or never
ChanHold ==
    /\ ch_start # -1
    /\ ch_next < MaxChanPackets
    /\ ch_irregular < MaxHeld
    /\ ch_held' = StillHeld(ch_held, ch_next + 1) \cup {ch_next}
    /\ ch_irregular' = ch_irregular + 1
    /\ ch_next' = ch_next + 1
    /\ UNCHANGED <<containers, nof_buffer_skips, current_container, current_buffer,
                   reference_time, reference_counter, rollover_counter, num_packets,
                   ch_start, ch_ended, ch_writes, ch_last, ch_since, ringVars, dbVars, filtVars, netVars, daqVars, rawVars, beamVars, moreVars>>

\* a packet that was held back arrives and is processed
ChanDeliverHeld ==
    /\ \E k \in ch_held :
          /\ ProcessPacket(k)
          /\ ch_held' = ch_held \ {k}
    /\ UNCHANGED <<nof_buffer_skips, ch_start, ch_next, ch_irregular, ch_ended, ringVars, dbVars, filtVars, netVars, daqVars, rawVars, beamVars, moreVars>>

\* the stream has ended: after packets were processed pull_timeout gives none for 1 s,
\* processPacket returns false and threadEntry calls onStreamEnd, which
\* ContinuousChannelisedData does not override (DataConsumer::onStreamEnd is empty)
ChanStreamEnd ==
    /\ ch_next = MaxChanPackets
    /\ ch_held = {}
    /\ ch_last.k # -1
    /\ ~ch_ended
    /\ ch_ended' = TRUE
    /\ UNCHANGED <<containers, nof_buffer_skips, current_container, current_buffer,
                   reference_time, reference_counter, rollover_counter, num_packets,
                   ch_start, ch_next, ch_held, ch_irregular, ch_writes, ch_last, ch_since,
                   ringVars, dbVars, filtVars, netVars, daqVars, rawVars, beamVars, moreVars>>

ChanStep == InitialiseConsumer \/ ChanDeliver \/ ChanHold \/ ChanDeliverHeld \/ ChanStreamEnd

(***************************************************************************)
(* The packet filters of the consumers (packetFilter of each DataConsumer). *)
(* A UDP payload is described by what the filters read of it: whether the   *)
(* SPEAD header carries the expected magic, version and widths, the address *)
(* of item 5 (the capture mode), and whether an item 0x1011 or 0x3010 is    *)
(* among its items.                                                         *)
(***************************************************************************)
\* the UDP payloads offered to the filters
Payloads == [spead_ok : BOOLEAN, mode : 0 .. MaxMode, has_1011 : BOOLEAN, has_3010 : BOOLEAN]

\* RawData::packetFilter
RawDataFilter(pkt) == pkt.spead_ok /\ (pkt.mode = 0 \/ pkt.mode = 1)

\* ChannelisedData::packetFilter
ChannelisedDataFilter(pkt) == pkt.spead_ok /\ pkt.mode = 4

\* a filter that takes burst channel packets as well
ContinuousChannelisedDataFilter_Burst(pkt) ==
    pkt.spead_ok /\ (pkt.mode = 4 \/ pkt.mode = 5 \/ pkt.mode = 7)

\* ContinuousChannelisedData::packetFilter
ContinuousChannelisedDataFilter(pkt) == pkt.spead_ok /\ (pkt.mode = 5 \/ pkt.mode = 7)

\* IntegratedChannelisedData::packetFilter
IntegratedChannelisedDataFilter(pkt) == pkt.spead_ok /\ pkt.mode = 6

\* BeamformedData::packetFilter
BeamformedDataFilter(pkt) == pkt.spead_ok /\ pkt.mode = 8

\* IntegratedBeamformedData::packetFilter (0x9, 0x11)
IntegratedBeamformedDataFilter(pkt) == pkt.spead_ok /\ (pkt.mode = 9 \/ pkt.mode = 17)

\* AntennaBuffer::packetFilter (0xC)
AntennaBufferFilter(pkt) == pkt.spead_ok /\ pkt.mode = 12

\* CorrelatorData::packetFilter and TensorCorrelatorData::packetFilter
CorrelatorDataFilter(pkt) == pkt.spead_ok /\ (pkt.mode = 4 \/ pkt.mode = 5 \/ pkt.mode = 7)

\* StationData::packetFilter
StationDataFilter(pkt) == pkt.spead_ok /\ pkt.has_1011

\* StationRawData::packetFilter
StationRawDataFilter(pkt) == pkt.spead_ok /\ (pkt.has_1011 \/ pkt.has_3010)

\* the consumer types that reassemble a capture mode into containers
ContainerFamilies == {"rawdata", "burstchannel", "continuouschannel", "integratedchannel",
                      "burstbeam", "integratedbeam", "antennabuffer"}

\* the consumer types
Families == ContainerFamilies \cup {"correlator", "stationdata", "stationdataraw"}

\* the filter of a consumer type
packetFilter(f, pkt) ==
    CASE f = "rawdata" -> RawDataFilter(pkt)
      [] f = "burstchannel" -> ChannelisedDataFilter(pkt)
      [] f = "continuouschannel" -> ContinuousChannelisedDataFilter(pkt)
      [] f = "integratedchannel" -> IntegratedChannelisedDataFilter(pkt)
      [] f = "burstbeam" -> BeamformedDataFilter(pkt)
      [] f = "integratedbeam" -> IntegratedBeamformedDataFilter(pkt)
      [] f = "antennabuffer" -> AntennaBufferFilter(pkt)
      [] f = "correlator" -> CorrelatorDataFilter(pkt)
      [] f = "stationdata" -> StationDataFilter(pkt)
      [] f = "stationdataraw" -> StationRawDataFilter(pkt)

\* no payload offered yet
NoPayload == [spead_ok |-> FALSE, mode |-> 0, has_1011 |-> FALSE, has_3010 |-> FALSE]

FilterInit ==
    /\ flt_pkt = NoPayload
    /\ flt_accept = {}

\* a payload is offered to the filter of every consumer type
FilterPacket ==
    /\ \E pkt \in Payloads :
          /\ flt_pkt' = pkt
          /\ flt_accept' = {f \in Families : packetFilter(f, pkt)}
    /\ UNCHANGED <<ringVars, dbVars, chanVars, netVars, daqVars, rawVars, beamVars, moreVars>>

(***************************************************************************)
(* NetworkReceiver (NetworkReceiver.cpp): the receive loop of a worker on   *)
(* the frames of its socket.  The socket is opened and bound for ETH_P_IP,  *)
(* so every frame is an IPv4 frame; header fields are kept as the bytes on  *)
(* the wire and read the way a little-endian host reads them.               *)
(***************************************************************************)
\* MAX_CONSUMERS
MAX_CONSUMERS == 6

\* IPPROTO_UDP
IPPROTO_UDP == 17

\* IPPROTO_TCP
IPPROTO_TCP == 6

\* the ip_address argument of the constructor, as its four bytes
ConfiguredIp == <<10, 0, 10, 1>>

\* destination addresses of the frames on the wire
DestAddrs == {<<10, 0, 10, 1>>, <<1, 10, 0, 10>>}

\* unsigned short ports[16]
PortsSize == 16

\* port numbers given to addPort
PortNumbers == {4660, 13330}

\* destination ports of the frames on the wire, as their two bytes: 4660 and 13330
DestPorts == {<<18, 52>>, <<52, 18>>}

\* a 32 bit field of a header, loaded from its four bytes
Load32(b) == b[1] + 256 * b[2] + 65536 * b[3] + 16777216 * b[4]

\* a 16 bit field of a header, loaded from its two bytes
Load16(b) == b[1] + 256 * b[2]

\* htonl and ntohl: the bytes of a 32 bit value in reverse order
ntohl(x) ==
    16777216 * (x % 256) + 65536 * ((x \div 256) % 256)
      + 256 * ((x \div 65536) % 256) + (x \div 16777216)

\* ntohs: the bytes of a 16 bit value in reverse order
ntohs(x) == 256 * (x % 256) + (x \div 256)

\* this->ip = htonl(sa.sin_addr.s_addr)
ip == ntohl(Load32(ConfiguredIp))

\* the payloads of the frames
FramePayloads == {pkt \in Payloads : pkt.mode \in {4, 5} /\ ~pkt.has_1011 /\ ~pkt.has_3010}

\* the frames a block of the socket holds
Frames == [protocol : {IPPROTO_UDP, IPPROTO_TCP}, daddr : DestAddrs, dest : DestPorts,
           payload : FramePayloads]

\* the consumer types registered with the receiver
IngressFamilies == {"continuouschannel", "correlator"}

\* port_index after the loop over ports: the first index holding the destination port,
\* num_ports when there is none
PortIndex(frame) ==
    IF \E i \in 1 .. Len(ports) : ntohs(Load16(frame.dest)) = ports[i]
    THEN (CHOOSE i \in 1 .. Len(ports) :
             /\ ntohs(Load16(frame.dest)) = ports[i]
             /\ \A j \in 1 .. i - 1 : ntohs(Load16(frame.dest)) # ports[j]) - 1
    ELSE Len(ports)

\* the test without the destination address
Skipped_AnyAddress(frame) ==
    frame.protocol # IPPROTO_UDP \/ PortIndex(frame) = Len(ports)

\* the test that makes the loop proceed to the next packet of the block
Skipped(frame) ==
    \/ frame.protocol # IPPROTO_UDP
    \/ PortIndex(frame) = Len(ports)
    \/ Load32(frame.daddr) # ntohl(ip)

\* no frame processed yet
NoFrame == [frame |-> [protocol |-> 0, daddr |-> <<0, 0, 0, 0>>, dest |-> <<0, 0>>,
                       payload |-> NoPayload],
            offered |-> {}, pushed |-> {}]

NetInit ==
    /\ ports = <<>>
    /\ filters = <<>>
    /\ lost_packets = 0
    /\ net_frames = 0
    /\ net_last = NoFrame

\* addPort: ports[num_ports] = port, num_ports++, whatever num_ports is.  The store of
\* the call that finds num_ports = 16 lands behind the table; what the receiver does after
\* it is not followed.  The ports differ among the first MaxPorts, then the last one is
\* added again
AddPort ==
    /\ Len(ports) <= PortsSize
    /\ \E p \in PortNumbers :
          /\ Len(ports) >= MaxPorts => p = ports[Len(ports)]
          /\ ports' = Append(ports, p)
    /\ UNCHANGED <<filters, lost_packets, net_frames, net_last,
                   ringVars, dbVars, chanVars, filtVars, daqVars, rawVars, beamVars, moreVars>>

\* registerConsumer
RegisterConsumer ==
    /\ Len(filters) < MAX_CONSUMERS
    /\ Len(filters) < MaxConsumers
    /\ \E f \in IngressFamilies : filters' = Append(filters, f)
    /\ UNCHANGED <<ports, lost_packets, net_frames, net_last,
                   ringVars, dbVars, chanVars, filtVars, daqVars, rawVars, beamVars, moreVars>>

\* one packet of a block in receive_loop: the header test, then every consumer's filter
\* and the push into the ring of each consumer whose filter accepts; a push into a full
\* ring fails and counts a lost packet
ReceivePacket ==
    /\ net_frames < MaxFrames
    /\ net_frames' = net_frames + 1
    /\ \E frame \in Frames :
          IF Len(filters) = 0 \/ Skipped(frame)
          THEN /\ net_last' = [frame |-> frame, offered |-> {}, pushed |-> {}]
               /\ lost_packets' = lost_packets
          ELSE LET accepting == {c \in 1 .. Len(filters) : packetFilter(filters[c], frame.payload)}
               IN  \E full \in SUBSET accepting :
                      /\ net_last' = [frame |-> frame, offered |-> 1 .. Len(filters),
                                      pushed |-> accepting \ full]
                      /\ lost_packets' = lost_packets + Cardinality(full)
    /\ UNCHANGED <<ports, filters, ringVars, dbVars, chanVars, filtVars, daqVars, rawVars, beamVars, moreVars>>

NetStep == AddPort \/ RegisterConsumer \/ ReceivePacket

(***************************************************************************)
(* The library's entry points (DAQ.cpp) with the threads they start and    *)
(* stop: the worker of the receiver (NetworkReceiver::receive_loop) and    *)
(* the thread of a consumer (DataConsumer::threadEntry).  One thread of    *)
(* the client calls the entry points, one call at a time, under one        *)
(* consumer name.  A NetworkReceiver that is left running with no pointer   *)
(* to it is only noted; the fields kept are those of the receiver the      *)
(* global pointer names.  A thread that runs on a deleted consumer is      *)
(* followed with the fields the object had when it was deleted.            *)
(***************************************************************************)
\* RESULT
SUCCESS == 0

FAILURE == -1

RECEIVER_UNINITIALISED == -2

CONSUMER_ALREADY_INITIALISED == -3

CONSUMER_NOT_INITIALISED == -4

\* the port the client adds
ClientPort == 4660

\* the places in memory of the consumer objects
Instances == 1 .. MaxObjects

\* the thread of the client in mutex_lock
ApiTid == MaxObjects + 1

\* a DataConsumer as constructed: is_running = false, stopped = true, stop_consumer =
\* false, consumerID = 0, receiver = nullptr; pc is the place of its thread
FreshConsumer ==
    [alive |-> TRUE, is_running |-> FALSE, stopped |-> TRUE, stop_consumer |-> FALSE,
     consumerID |-> 0, initialised |-> FALSE, rx |-> "null", pc |-> "none"]

\* a place that holds no consumer object
NoConsumer == [FreshConsumer EXCEPT !.alive = FALSE]

\* a place is free once its object is deleted, the object's thread has returned and the
\* receiver holds no entry of it
FreePlace(i) ==
    /\ ~inst[i].alive
    /\ inst[i].pc \in {"none", "done"}
    /\ \A k \in 1 .. Len(rx_consumers) : rx_consumers[k].owner # i

\* the calls of one acquisition, in the order of test_correlator_data
Script == <<"startReceiver", "addReceiverPort", "loadConsumer", "initialiseConsumer",
            "startConsumer", "stopConsumer", "stopReceiver">>

\* what startReceiver returns: the constructor and startThread throw nothing
StartReceiverResult == SUCCESS

\* what stopReceiver returns
StopReceiverResult == SUCCESS

\* what addReceiverPort returns
AddReceiverPortResult == IF receiver # 0 THEN SUCCESS ELSE RECEIVER_UNINITIALISED

\* what loadConsumer returns, the library and the symbol being there
LoadConsumerResult == IF consumers # 0 THEN CONSUMER_ALREADY_INITIALISED ELSE SUCCESS

\* what initialiseConsumer returns on a JSON string that parses or not and a
\* configuration that holds the consumer's keys or not
InitialiseConsumerResult(parses, complete) ==
    IF receiver = 0 THEN RECEIVER_UNINITIALISED
    ELSE IF consumers = 0 THEN CONSUMER_NOT_INITIALISED
    ELSE IF ~parses THEN FAILURE
    ELSE IF complete THEN SUCCESS ELSE FAILURE

\* what startConsumer returns
StartConsumerResult ==
    IF receiver = 0 THEN RECEIVER_UNINITIALISED
    ELSE IF consumers = 0 THEN CONSUMER_NOT_INITIALISED
    ELSE IF inst[consumers].is_running THEN CONSUMER_ALREADY_INITIALISED
    ELSE SUCCESS

\* what stopConsumer returns
StopConsumerResult ==
    IF consumers = 0 THEN CONSUMER_NOT_INITIALISED
    ELSE IF ~inst[consumers].is_running THEN CONSUMER_NOT_INITIALISED
    ELSE SUCCESS

\* a call returns and leaves the receiver pointer at rcv and the map entry at cons.
\* The calls are counted while they follow the script and return
\* SUCCESS; a state with no receiver and no consumer is where an acquisition begins
Return(call, result, rcv, cons) ==
    IF script >= 0 /\ Script[script + 1] = call /\ result = SUCCESS
    THEN /\ script' = (script + 1) % Len(Script)
         /\ acquisitions' = IF script + 1 = Len(Script) /\ acquisitions < MaxAcquisitions
                             THEN acquisitions + 1 ELSE acquisitions
    ELSE /\ script' = IF rcv = 0 /\ cons = 0 THEN 0 ELSE -1
         /\ acquisitions' = 0

\* the consumers' pointer to the receiver after the global one is replaced or deleted
Repoint(to) ==
    [i \in Instances |-> IF inst[i].rx = "current" THEN [inst[i] EXCEPT !.rx = to]
                         ELSE inst[i]]

\* the map entry after stopConsumer: without the erase the name stays taken
Erased_Kept(name) == name

\* consumers.erase(it)
Erased(name) == 0

DaqInit ==
    /\ receiver = 0
    /\ orphaned = FALSE
    /\ stop_thread = FALSE
    /\ rw_pc = "none"
    /\ rw_target = 0
    /\ mutex_lock = 0
    /\ rx_consumers = <<>>
    /\ consumers = 0
    /\ inst = [i \in Instances |-> NoConsumer]
    /\ api_pc = "idle"
    /\ api_idx = 0
    /\ script = 0
    /\ acquisitions = 0

\* startReceiver: a new NetworkReceiver with one receive thread takes the place of
\* whatever the global pointer held
StartReceiver ==
    /\ api_pc = "idle"
    /\ orphaned' = (orphaned \/ receiver # 0)
    /\ receiver' = 1
    /\ stop_thread' = FALSE
    /\ rw_pc' = "loop"
    /\ rw_target' = 0
    /\ mutex_lock' = 0
    /\ rx_consumers' = <<>>
    /\ ports' = <<>>
    /\ inst' = Repoint("orphan")
    /\ Return("startReceiver", StartReceiverResult, 1, consumers)
    /\ UNCHANGED <<consumers, api_pc, api_idx, netRest,
                   ringVars, dbVars, chanVars, filtVars, rawVars, beamVars, moreVars>>

\* stopReceiver up to the join: stop() sets stop_thread
StopReceiverCall ==
    /\ api_pc = "idle"
    /\ IF receiver = 0
       THEN /\ Return("stopReceiver", StopReceiverResult, receiver, consumers)
            /\ UNCHANGED <<stop_thread, api_pc>>
       ELSE /\ stop_thread' = TRUE
            /\ api_pc' = "join"
            /\ UNCHANGED <<script, acquisitions>>
    /\ UNCHANGED <<receiver, orphaned, rw_pc, rw_target, mutex_lock, rx_consumers, consumers, inst,
                   api_idx, netVars,
                   ringVars, dbVars, chanVars, filtVars, rawVars, beamVars, moreVars>>

\* stopReceiver from the join: waitForThreadToExit returns once threadEntry has joined
\* the receive thread; then delete receiver, receiver = nullptr
StopReceiverJoin ==
    /\ api_pc = "join"
    /\ rw_pc = "exited"
    /\ receiver' = 0
    /\ stop_thread' = FALSE
    /\ rw_pc' = "none"
    /\ rw_target' = 0
    /\ mutex_lock' = 0
    /\ rx_consumers' = <<>>
    /\ ports' = <<>>
    /\ inst' = Repoint("deleted")
    /\ api_pc' = "idle"
    /\ Return("stopReceiver", SUCCESS, 0, consumers)
    /\ UNCHANGED <<orphaned, consumers, api_idx, netRest,
                   ringVars, dbVars, chanVars, filtVars, rawVars, beamVars, moreVars>>

\* addReceiverPort: addPort stores at ports[num_ports] and counts.  The calls past
\* MaxPorts are followed in AddPort
AddReceiverPort ==
    /\ api_pc = "idle"
    /\ IF AddReceiverPortResult # SUCCESS
       THEN UNCHANGED ports
       ELSE /\ Len(ports) < MaxPorts
            /\ ports' = Append(ports, ClientPort)
    /\ Return("addReceiverPort", AddReceiverPortResult, receiver, consumers)
    /\ UNCHANGED <<receiver, orphaned, stop_thread, rw_pc, rw_target, mutex_lock, rx_consumers,
                   consumers, inst, api_pc, api_idx, netRest,
                   ringVars, dbVars, chanVars, filtVars, rawVars, beamVars, moreVars>>

\* loadConsumer
LoadConsumer ==
    /\ api_pc = "idle"
    /\ IF LoadConsumerResult # SUCCESS
       THEN UNCHANGED <<consumers, inst>>
       ELSE /\ \E i \in Instances : FreePlace(i)
            /\ LET i == CHOOSE i \in Instances :
                            FreePlace(i) /\ \A j \in 1 .. i - 1 : ~FreePlace(j)
               IN  /\ consumers' = i
                   /\ inst' = [inst EXCEPT ![i] = FreshConsumer]
    \* the map holds the name after the call, whatever it returned
    /\ Return("loadConsumer", LoadConsumerResult, receiver, 1)
    /\ UNCHANGED <<receiver, orphaned, stop_thread, rw_pc, rw_target, mutex_lock, rx_consumers,
                   api_pc, api_idx, netVars,
                   ringVars, dbVars, chanVars, filtVars, rawVars, beamVars, moreVars>>

\* initialiseConsumer: the consumer's initialiseConsumer runs whenever the receiver and
\* the consumer are there and the string parses
InitialiseConsumerCall ==
    /\ api_pc = "idle"
    /\ \E parses \in BOOLEAN, complete \in BOOLEAN :
          /\ inst' = IF InitialiseConsumerResult(parses, complete) = SUCCESS
                     THEN [inst EXCEPT ![consumers].initialised = TRUE] ELSE inst
          /\ Return("initialiseConsumer", InitialiseConsumerResult(parses, complete),
                   receiver, consumers)
    /\ UNCHANGED <<receiver, orphaned, stop_thread, rw_pc, rw_target, mutex_lock, rx_consumers,
                   consumers, api_pc, api_idx, netVars,
                   ringVars, dbVars, chanVars, filtVars, rawVars, beamVars, moreVars>>

\* startConsumerGeneric: setReceiver, startThread, setIsRunning(true)
StartConsumer ==
    /\ api_pc = "idle"
    /\ inst' = IF StartConsumerResult = SUCCESS
               THEN [inst EXCEPT ![consumers].rx = "current",
                                 ![consumers].pc = "created",
                                 ![consumers].is_running = TRUE]
               ELSE inst
    /\ Return("startConsumer", StartConsumerResult, receiver, consumers)
    /\ UNCHANGED <<receiver, orphaned, stop_thread, rw_pc, rw_target, mutex_lock, rx_consumers,
                   consumers, api_pc, api_idx, netVars,
                   ringVars, dbVars, chanVars, filtVars, rawVars, beamVars, moreVars>>

\* stopConsumer up to the call of DataConsumer::stopConsumer
StopConsumerCall ==
    /\ api_pc = "idle"
    /\ IF StopConsumerResult # SUCCESS
       THEN /\ Return("stopConsumer", StopConsumerResult, receiver, consumers)
            /\ UNCHANGED api_pc
       ELSE /\ api_pc' = "unreg_search"
            /\ UNCHANGED <<script, acquisitions>>
    /\ UNCHANGED <<receiver, orphaned, stop_thread, rw_pc, rw_target, mutex_lock, rx_consumers,
                   consumers, inst, api_idx, netVars,
                   ringVars, dbVars, chanVars, filtVars, rawVars, beamVars, moreVars>>

\* the first index of the consumers vector that holds the id, 0 when none does
FoundAt(id) ==
    IF \E k \in 1 .. Len(rx_consumers) : rx_consumers[k].id = id
    THEN CHOOSE k \in 1 .. Len(rx_consumers) :
            /\ rx_consumers[k].id = id
            /\ \A j \in 1 .. k - 1 : rx_consumers[j].id # id
    ELSE 0

\* unregisterConsumer, the loop that looks for the id: it runs before the lock is taken
UnregisterSearch ==
    /\ api_pc = "unreg_search"
    /\ LET c == inst[consumers]
       IN  /\ api_idx' = IF c.rx = "current" THEN FoundAt(c.consumerID) ELSE 0
           /\ api_pc' = IF c.rx = "current" /\ FoundAt(c.consumerID) # 0
                        THEN "unreg_lock" ELSE "set_stop"
    /\ UNCHANGED <<receiver, orphaned, stop_thread, rw_pc, rw_target, mutex_lock, rx_consumers,
                   consumers, inst, script, acquisitions, netVars,
                   ringVars, dbVars, chanVars, filtVars, rawVars, beamVars, moreVars>>

\* unregisterConsumer: mutex_lock.lock()
UnregisterLock ==
    /\ api_pc = "unreg_lock"
    /\ mutex_lock = 0
    /\ mutex_lock' = ApiTid
    /\ api_pc' = "unreg_erase"
    /\ UNCHANGED <<receiver, orphaned, stop_thread, rw_pc, rw_target, rx_consumers, consumers, inst,
                   api_idx, script, acquisitions, netVars,
                   ringVars, dbVars, chanVars, filtVars, rawVars, beamVars, moreVars>>

\* unregisterConsumer: the three erases, nof_consumers - 1, mutex_lock.unlock()
UnregisterErase ==
    /\ api_pc = "unreg_erase"
    /\ rx_consumers' = [k \in 1 .. Len(rx_consumers) - 1 |->
                           IF k < api_idx THEN rx_consumers[k] ELSE rx_consumers[k + 1]]
    /\ mutex_lock' = 0
    /\ api_pc' = "set_stop"
    /\ UNCHANGED <<receiver, orphaned, stop_thread, rw_pc, rw_target, consumers, inst,
                   api_idx, script, acquisitions, netVars,
                   ringVars, dbVars, chanVars, filtVars, rawVars, beamVars, moreVars>>

\* DataConsumer::stopConsumer: stop_consumer = true
StopConsumerSignal ==
    /\ api_pc = "set_stop"
    /\ inst' = [inst EXCEPT ![consumers].stop_consumer = TRUE]
    /\ api_pc' = "wait"
    /\ UNCHANGED <<receiver, orphaned, stop_thread, rw_pc, rw_target, mutex_lock, rx_consumers,
                   consumers, api_idx, script, acquisitions, netVars,
                   ringVars, dbVars, chanVars, filtVars, rawVars, beamVars, moreVars>>

\* DataConsumer::stopConsumer: the loop while (!stopped) ends, cleanUp; then stopConsumer
\* deletes the consumer and erases it from the map
StopConsumerDestroy ==
    /\ api_pc = "wait"
    /\ inst[consumers].stopped
    /\ inst' = [inst EXCEPT ![consumers] =
                    IF @.pc = "done" THEN NoConsumer ELSE [@ EXCEPT !.alive = FALSE]]
    /\ consumers' = Erased(consumers)
    /\ api_pc' = "idle"
    /\ Return("stopConsumer", SUCCESS, receiver, Erased(consumers))
    /\ UNCHANGED <<receiver, orphaned, stop_thread, rw_pc, rw_target, mutex_lock, rx_consumers,
                   api_idx, netVars,
                   ringVars, dbVars, chanVars, filtVars, rawVars, beamVars, moreVars>>

\* what a step of consumer i's thread leaves alone.  A step on an object that is deleted
\* reads and writes freed memory: what the process does from there on is undefined, and
\* its calls are no longer counted as an acquisition that follows the script
ThreadFrame(i) ==
    /\ script' = IF inst[i].alive THEN script ELSE -1
    /\ acquisitions' = IF inst[i].alive THEN acquisitions ELSE 0
    /\ UNCHANGED <<receiver, orphaned, stop_thread, rw_pc, rw_target, consumers, api_pc, api_idx,
                   netVars, ringVars, dbVars, chanVars, filtVars, rawVars, beamVars, moreVars>>

\* threadEntry, registerConsumer: mutex_lock.lock()
ThreadRegisterLock(i) ==
    /\ inst[i].pc = "created"
    /\ inst[i].rx = "current" => mutex_lock = 0
    /\ mutex_lock' = IF inst[i].rx = "current" THEN i ELSE mutex_lock
    /\ inst' = [inst EXCEPT ![i].pc = "reg_locked"]
    /\ UNCHANGED rx_consumers
    /\ ThreadFrame(i)

\* threadEntry, registerConsumer: the limit, the three push_back with consumer_id =
\* nof_consumers, nof_consumers + 1, mutex_lock.unlock(); consumerID = the id returned
ThreadRegister(i) ==
    /\ inst[i].pc = "reg_locked"
    /\ IF inst[i].rx = "current" /\ mutex_lock = i
       THEN /\ mutex_lock' = 0
            /\ IF Len(rx_consumers) >= MAX_CONSUMERS
               THEN /\ rx_consumers' = rx_consumers
                    /\ inst' = [inst EXCEPT ![i].pc = "registered", ![i].consumerID = -1]
               ELSE /\ rx_consumers' = Append(rx_consumers,
                                              [id |-> Len(rx_consumers), owner |-> i])
                    /\ inst' = [inst EXCEPT ![i].pc = "registered",
                                            ![i].consumerID = Len(rx_consumers)]
       ELSE /\ inst' = [inst EXCEPT ![i].pc = "registered"]
            /\ UNCHANGED <<mutex_lock, rx_consumers>>
    /\ ThreadFrame(i)

\* threadEntry: stopped = false
ThreadStarted(i) ==
    /\ inst[i].pc = "registered"
    /\ inst' = [inst EXCEPT ![i].pc = "loop", ![i].stopped = FALSE]
    /\ UNCHANGED <<mutex_lock, rx_consumers>>
    /\ ThreadFrame(i)

\* threadEntry: the loops end once stop_consumer is read as true; stopped = true
ThreadStopped(i) ==
    /\ inst[i].pc = "loop"
    /\ inst[i].stop_consumer
    /\ inst' = [inst EXCEPT ![i].pc = "deleting", ![i].stopped = TRUE]
    /\ UNCHANGED <<mutex_lock, rx_consumers>>
    /\ ThreadFrame(i)

\* threadEntry: delete ring_buffer, and the thread returns
ThreadDeletesRing(i) ==
    /\ inst[i].pc = "deleting"
    /\ inst' = [inst EXCEPT ![i] = IF @.alive THEN [@ EXCEPT !.pc = "done"] ELSE NoConsumer]
    /\ UNCHANGED <<mutex_lock, rx_consumers>>
    /\ ThreadFrame(i)

\* what a step of the receive thread leaves alone
WorkerFrame ==
    UNCHANGED <<receiver, orphaned, stop_thread, mutex_lock, rx_consumers, consumers, inst,
                api_pc, api_idx, script, acquisitions, netVars,
                ringVars, dbVars, chanVars, filtVars, rawVars, beamVars, moreVars>>

\* receive_loop: a packet of a block passes the header test with nof_consumers # 0, and
\* the loop over the consumers begins; it calls the filter of every entry in turn and
\* pushes into the entry's ring: the worker is at one of the entries
WorkerDispatch ==
    /\ rw_pc = "loop"
    /\ ~stop_thread
    /\ Len(rx_consumers) # 0
    /\ rw_pc' = "dispatch"
    /\ \E c \in 1 .. Len(rx_consumers) : rw_target' = rx_consumers[c].owner
    /\ WorkerFrame

\* receive_loop: the loop over the consumers ends
WorkerDispatched ==
    /\ rw_pc = "dispatch"
    /\ rw_pc' = "loop"
    /\ rw_target' = 0
    /\ WorkerFrame

\* receive_loop: stop_thread is read as true, the loop ends and the thread is joined
WorkerExit ==
    /\ rw_pc = "loop"
    /\ stop_thread
    /\ rw_pc' = "exited"
    /\ UNCHANGED rw_target
    /\ WorkerFrame

ClientStep ==
    \/ StartReceiver
    \/ StopReceiverCall
    \/ StopReceiverJoin
    \/ AddReceiverPort
    \/ LoadConsumer
    \/ InitialiseConsumerCall
    \/ StartConsumer
    \/ StopConsumerCall
    \/ UnregisterSearch
    \/ UnregisterLock
    \/ UnregisterErase
    \/ StopConsumerSignal
    \/ StopConsumerDestroy

ConsumerThreadStep(i) ==
    \/ ThreadRegisterLock(i)
    \/ ThreadRegister(i)
    \/ ThreadStarted(i)
    \/ ThreadStopped(i)
    \/ ThreadDeletesRing(i)

ReceiveThreadStep == WorkerDispatch \/ WorkerDispatched \/ WorkerExit

(***************************************************************************)
(* StationRawDoubleBuffer (StationDataRaw.cpp) with its two threads: the    *)
(* thread of the StationRawData consumer, which calls write_data for every *)
(* packet, and the StationRawPersister.  Of a buffer only sample_index (0   *)
(* or not) and ready are kept; what is kept of a packet is the branch of    *)
(* write_data it takes.  A mutex holds the name of the thread that locked   *)
(* it.                                                                      *)
(***************************************************************************)
\* nbuffers of the StationRawDoubleBuffer constructor
RawBuffers == 4

\* tim.tv_nsec: what one nanosleep of the wait loop adds to elapsed_time
RawSleepNs == 1000

\* elapsed_time >= 1e4: the buffer is overwritten
RawOverwriteNs == 10000

RawSlots == 0 .. RawBuffers - 1

\* clear(index) on the fields kept
RawCleared == [sample_index |-> FALSE, ready |-> FALSE]

\* mutex->unlock() by a thread: on a mutex the thread holds it frees the mutex; on a
\* mutex it does not hold the behaviour is undefined, and the mutex is either freed or
\* left as it is
RawUnlocked(slot, thread) ==
    IF raw_mutex[slot] = thread
    THEN {[raw_mutex EXCEPT ![slot] = "free"]}
    ELSE {[raw_mutex EXCEPT ![slot] = "free"], raw_mutex}

RawInit ==
    /\ raw_buffer = [s \in RawSlots |-> RawCleared]
    /\ raw_mutex = [s \in RawSlots |-> "free"]
    /\ raw_producer = 0
    /\ raw_consumer = 0
    /\ raw_elapsed = 0
    /\ raw_w_pc = "loop"
    /\ raw_p_pc = "read"
    /\ raw_stop_consumer = FALSE
    /\ raw_stop_thread = FALSE

\* what a step on the station raw buffer leaves alone
RawFrame == UNCHANGED <<ringVars, dbVars, chanVars, filtVars, netVars, daqVars, beamVars, moreVars>>

\* write_data for a packet of the current buffer: an empty buffer takes the packet's
\* counter as its sample_index
WriteInBuffer ==
    /\ raw_w_pc = "loop"
    /\ ~raw_stop_consumer
    /\ raw_buffer' = [raw_buffer EXCEPT ![raw_producer].sample_index = TRUE]
    /\ UNCHANGED <<raw_mutex, raw_producer, raw_consumer, raw_elapsed, raw_w_pc, raw_p_pc,
                   raw_stop_consumer, raw_stop_thread>>
    /\ RawFrame

\* write_data for a packet past the end of the current buffer: the buffer before the
\* previous one is marked ready when it holds data, producer = (producer + 1) %
\* nof_buffers, elapsed_time = 0
WriteBoundary ==
    /\ raw_w_pc = "loop"
    /\ ~raw_stop_consumer
    /\ raw_buffer[raw_producer].sample_index
    /\ LET local_producer == IF raw_producer < 2 THEN raw_producer - 2 + RawBuffers
                             ELSE raw_producer - 2
       IN  raw_buffer' = IF raw_buffer[local_producer].sample_index
                         THEN [raw_buffer EXCEPT ![local_producer].ready = TRUE]
                         ELSE raw_buffer
    /\ raw_producer' = (raw_producer + 1) % RawBuffers
    /\ raw_elapsed' = 0
    /\ raw_w_pc' = "lock"
    /\ UNCHANGED <<raw_mutex, raw_consumer, raw_p_pc, raw_stop_consumer, raw_stop_thread>>
    /\ RawFrame

\* write_data: double_buffer[producer].mutex->lock(), at the boundary and after every
\* nanosleep of the wait loop.  The call returns once the mutex is free; a thread that
\* holds the mutex itself waits for it like any other
WriteLock ==
    /\ raw_w_pc \in {"lock", "relock"}
    /\ raw_mutex[raw_producer] = "free"
    /\ raw_mutex' = [raw_mutex EXCEPT ![raw_producer] = "writer"]
    /\ raw_w_pc' = IF raw_w_pc = "lock" THEN "wait"
                   ELSE IF raw_elapsed >= RawOverwriteNs THEN "overwrite" ELSE "wait"
    /\ UNCHANGED <<raw_buffer, raw_producer, raw_consumer, raw_elapsed, raw_p_pc,
                   raw_stop_consumer, raw_stop_thread>>
    /\ RawFrame

\* write_data, the wait loop: the buffer can be used when its sample_index is 0;
\* otherwise unlock, nanosleep, elapsed_time += tim.tv_nsec
WriteWait ==
    /\ raw_w_pc = "wait"
    /\ IF ~raw_buffer[raw_producer].sample_index
       THEN /\ raw_w_pc' = "take"
            /\ UNCHANGED <<raw_mutex, raw_elapsed>>
       ELSE /\ raw_mutex' \in RawUnlocked(raw_producer, "writer")
            /\ raw_elapsed' = raw_elapsed + RawSleepNs
            /\ raw_w_pc' = "relock"
    /\ UNCHANGED <<raw_buffer, raw_producer, raw_consumer, raw_p_pc,
                   raw_stop_consumer, raw_stop_thread>>
    /\ RawFrame

\* write_data, the wait loop: elapsed_time >= 1e4, clear(producer)
WriteOverwrite ==
    /\ raw_w_pc = "overwrite"
    /\ raw_buffer' = [raw_buffer EXCEPT ![raw_producer] = RawCleared]
    /\ raw_w_pc' = "take"
    /\ UNCHANGED <<raw_mutex, raw_producer, raw_consumer, raw_elapsed, raw_p_pc,
                   raw_stop_consumer, raw_stop_thread>>
    /\ RawFrame

\* write_data: the new buffer gets its sample_index, then
\* double_buffer[consumer].mutex->unlock(), and the packet is copied
WriteTake ==
    /\ raw_w_pc = "take"
    /\ raw_buffer' = [raw_buffer EXCEPT ![raw_producer].sample_index = TRUE]
    /\ raw_mutex' \in RawUnlocked(raw_consumer, "writer")
    /\ raw_w_pc' = "loop"
    /\ UNCHANGED <<raw_producer, raw_consumer, raw_elapsed, raw_p_pc,
                   raw_stop_consumer, raw_stop_thread>>
    /\ RawFrame

\* DataConsumer::threadEntry: stop_consumer is read as true, the loops end, stopped = true
ConsumerExits ==
    /\ raw_w_pc = "loop"
    /\ raw_stop_consumer
    /\ raw_w_pc' = "exited"
    /\ UNCHANGED <<raw_buffer, raw_mutex, raw_producer, raw_consumer, raw_elapsed, raw_p_pc,
                   raw_stop_consumer, raw_stop_thread>>
    /\ RawFrame

\* StationRawPersister::threadEntry with read_buffer up to the lock: the buffer at
\* consumer is not ready, nanosleep, nullptr, and the thread returns when stop_thread is
\* set; or the buffer is ready and its mutex is to be locked
PersisterReads ==
    /\ raw_p_pc = "read"
    /\ raw_stop_thread \/ raw_buffer[raw_consumer].ready
    /\ raw_p_pc' = IF raw_buffer[raw_consumer].ready THEN "lock" ELSE "exited"
    /\ UNCHANGED <<raw_buffer, raw_mutex, raw_producer, raw_consumer, raw_elapsed, raw_w_pc,
                   raw_stop_consumer, raw_stop_thread>>
    /\ RawFrame

\* read_buffer: double_buffer[consumer].mutex->lock(); back in threadEntry the thread
\* returns when stop_thread is set, the mutex still locked
PersisterLocks ==
    /\ raw_p_pc = "lock"
    /\ raw_mutex[raw_consumer] = "free"
    /\ raw_mutex' = [raw_mutex EXCEPT ![raw_consumer] = "persister"]
    /\ raw_p_pc' = IF raw_stop_thread THEN "exited" ELSE "process"
    /\ UNCHANGED <<raw_buffer, raw_producer, raw_consumer, raw_elapsed, raw_w_pc,
                   raw_stop_consumer, raw_stop_thread>>
    /\ RawFrame

\* threadEntry: the callback; release_buffer: clear(consumer), mutex->unlock()
PersisterReleases ==
    /\ raw_p_pc = "process"
    /\ raw_buffer' = [raw_buffer EXCEPT ![raw_consumer] = RawCleared]
    /\ raw_mutex' \in RawUnlocked(raw_consumer, "persister")
    /\ raw_p_pc' = "advance"
    /\ UNCHANGED <<raw_producer, raw_consumer, raw_elapsed, raw_w_pc,
                   raw_stop_consumer, raw_stop_thread>>
    /\ RawFrame

\* release_buffer: consumer = (consumer + 1) % nof_buffers; sched_yield, and the test of
\* stop_thread at the head of the loop
PersisterAdvances ==
    /\ raw_p_pc = "advance"
    /\ raw_consumer' = (raw_consumer + 1) % RawBuffers
    /\ raw_p_pc' = IF raw_stop_thread THEN "exited" ELSE "read"
    /\ UNCHANGED <<raw_buffer, raw_mutex, raw_producer, raw_elapsed, raw_w_pc,
                   raw_stop_consumer, raw_stop_thread>>
    /\ RawFrame

\* DataConsumer::stopConsumer: stop_consumer = true
RawStopConsumer ==
    /\ ~raw_stop_consumer
    /\ raw_stop_consumer' = TRUE
    /\ UNCHANGED <<raw_buffer, raw_mutex, raw_producer, raw_consumer, raw_elapsed, raw_w_pc,
                   raw_p_pc, raw_stop_thread>>
    /\ RawFrame

\* DataConsumer::stopConsumer after while (!stopped): cleanUp calls persister->stop(),
\* which sets stop_thread and joins the persister
RawCleanUp ==
    /\ raw_stop_consumer
    /\ raw_w_pc = "exited"
    /\ ~raw_stop_thread
    /\ raw_stop_thread' = TRUE
    /\ UNCHANGED <<raw_buffer, raw_mutex, raw_producer, raw_consumer, raw_elapsed, raw_w_pc,
                   raw_p_pc, raw_stop_consumer>>
    /\ RawFrame

\* the thread of the StationRawData consumer
RawConsumerStep ==
    \/ WriteInBuffer
    \/ WriteBoundary
    \/ WriteLock
    \/ WriteWait
    \/ WriteOverwrite
    \/ WriteTake
    \/ ConsumerExits

\* the thread of the StationRawPersister
RawPersisterStep ==
    \/ PersisterReads
    \/ PersisterLocks
    \/ PersisterReleases
    \/ PersisterAdvances

\* the client's thread inside stopConsumer
RawClientStep == RawStopConsumer \/ RawCleanUp

(***************************************************************************)
(* The callback of acquire_station_beam (acquire_station_beam.cpp) that     *)
(* writes the station beam buffers to file, one file for all channels, no  *)
(* DADA header, simulate_write off, start_sample_index 0.  The persister    *)
(* hands over every buffer counter at most once, not further than          *)
(* BeamWindow from the count of the callbacks.                             *)
(***************************************************************************)
\* the buffer counters that the next callback can come with
BeamCounters ==
    {b \in 0 .. bm_counter + BeamWindow : b >= bm_counter - BeamWindow /\ b \notin bm_seen}

\* the file as write_to_file leaves it when buffer bc is written at offset off
Written(file, off, bc) == {e \in file : e[1] # off} \cup {<<off, bc>>}

\* buffer b is one of the cutoff_counter buffers of the file created at the callback
\* that found counter = first
InFile(b, first) == first <= b /\ b < first + cutoff_counter

\* no callback got past the skip so far
NoWrite == [buffer_counter |-> -1, counter |-> -1, offset |-> -1, opened |-> FALSE,
            first |-> -1]

BeamInit ==
    /\ skip = 1
    /\ bm_counter = 0
    /\ bm_pos = 0
    /\ bm_file = {}
    /\ bm_written = 0
    /\ bm_first = -1
    /\ bm_foreign = FALSE
    /\ bm_closed = [bytes |-> -1, foreign |-> FALSE]
    /\ bm_seen = {}
    /\ bm_last = NoWrite
    /\ bm_exited = FALSE

\* what a step of the callback leaves alone
BeamFrame == UNCHANGED <<ringVars, dbVars, chanVars, filtVars, netVars, daqVars, rawVars, moreVars>>

\* raw_station_beam_callback on a buffer with the given buffer_counter
Callback(buffer_counter) ==
    LET open == (bm_counter - skip) % cutoff_counter = 0
        \* generate_output_file: the files are closed and a new one is created
        pos == IF open THEN 0 ELSE bm_pos
        file == IF open THEN {} ELSE bm_file
        written == IF open THEN 0 ELSE bm_written
        first == IF open THEN bm_counter ELSE bm_first
        ahead == buffer_counter > bm_counter
        dropped ==
            IF ahead
            THEN buffer_counter % cutoff_counter < (bm_counter - skip) % cutoff_counter
            ELSE /\ buffer_counter < bm_counter
                 /\ buffer_counter % cutoff_counter > (bm_counter - skip) % cutoff_counter
        \* where write_to_file finds the file position
        offset == IF ahead THEN pos + (buffer_counter - bm_counter) * buffer_size
                  ELSE pos - (bm_counter - buffer_counter) * buffer_size
    IN  /\ bm_seen' = {b \in bm_seen \cup {buffer_counter} : b + BeamWindow > bm_counter}
        /\ IF bm_counter < skip
           THEN /\ bm_counter' = bm_counter + 1
                /\ UNCHANGED <<bm_pos, bm_file, bm_written, bm_first, bm_foreign,
                               bm_closed, bm_last, bm_exited>>
           ELSE /\ bm_first' = first
                /\ bm_foreign' = ((~open /\ bm_foreign) \/ ~InFile(buffer_counter, first))
                /\ bm_closed' = IF open /\ bm_first # -1
                                THEN [bytes |-> bm_written * buffer_size,
                                      foreign |-> bm_foreign]
                                ELSE bm_closed
                /\ IF dropped
                   THEN \* the warning; counter++
                        /\ bm_counter' = bm_counter + 1
                        /\ bm_pos' = pos
                        /\ bm_file' = file
                        /\ bm_written' = written
                        /\ bm_last' = [buffer_counter |-> buffer_counter,
                                       counter |-> bm_counter, offset |-> -1,
                                       opened |-> open, first |-> first]
                        /\ UNCHANGED bm_exited
                   ELSE IF offset < 0
                   THEN \* seek_to_location: lseek fails, exit_with_error
                        /\ bm_exited' = TRUE
                        /\ bm_pos' = pos
                        /\ bm_file' = file
                        /\ bm_written' = written
                        /\ bm_last' = [buffer_counter |-> buffer_counter,
                                       counter |-> bm_counter, offset |-> -1,
                                       opened |-> open, first |-> first]
                        /\ UNCHANGED bm_counter
                   ELSE \* write_to_file at offset, then the position is set to
                        \* current_offset + buffer_size; counter++
                        /\ bm_counter' = bm_counter + 1
                        /\ bm_pos' = pos + buffer_size
                        /\ bm_file' = Written(file, offset, buffer_counter)
                        /\ bm_written' = written + 1
                        /\ bm_last' = [buffer_counter |-> buffer_counter,
                                       counter |-> bm_counter, offset |-> offset,
                                       opened |-> open, first |-> first]
                        /\ UNCHANGED bm_exited

\* the persister calls the callback
StationBeamCallback ==
    /\ ~bm_exited
    /\ bm_counter < MaxCallbacks
    /\ \E buffer_counter \in BeamCounters : Callback(buffer_counter)
    /\ UNCHANGED skip
    /\ BeamFrame

\* parse_arguments: a capture start time on the command line sets skip to 0
CaptureTimeOption ==
    /\ bm_counter = 0
    /\ bm_seen = {}
    /\ skip = 1
    /\ skip' = 0
    /\ UNCHANGED <<bm_counter, bm_pos, bm_file, bm_written, bm_first, bm_foreign,
                   bm_closed, bm_seen, bm_last, bm_exited>>
    /\ BeamFrame

(***************************************************************************)
(* The consumer list of one NetworkReceiver shared by several consumers     *)
(* (NetworkReceiver::registerConsumer / unregisterConsumer, called by        *)
(* DataConsumer::threadEntry and DataConsumer::stopConsumer).  The client   *)
(* starts and stops consumers of different names one call at a time; the    *)
(* thread that startConsumer creates registers whenever it gets to run.     *)
(***************************************************************************)
\* the names under which the client loads consumers
RegNames == 1 .. MaxNames

\* no consumer of that name is running
RegIdle == [pc |-> "none", consumerID |-> 0]

RegInit ==
    /\ reg_list = <<>>
    /\ reg_cons = [x \in RegNames |-> RegIdle]

\* what a step on the consumer list leaves alone
RegFrame ==
    UNCHANGED <<ringVars, dbVars, chanVars, filtVars, netVars, daqVars, rawVars, beamVars,
                idxVars, antVars>>

\* loadConsumer and startConsumer: a DataConsumer is constructed (consumerID = 0) and its
\* thread is created
RegStartConsumer(x) ==
    /\ reg_cons[x].pc = "none"
    /\ reg_cons' = [reg_cons EXCEPT ![x] = [pc |-> "created", consumerID |-> 0]]
    /\ UNCHANGED reg_list
    /\ RegFrame

\* the list after registerConsumer and the id it returns
Registered(list, x) ==
    IF Len(list) >= MAX_CONSUMERS
    THEN [list |-> list, id |-> -1]
    ELSE [list |-> Append(list, [id |-> Len(list), owner |-> x]), id |-> Len(list)]

\* threadEntry: consumerID = receiver->registerConsumer(ring_buffer, filter)
RegThreadRegisters(x) ==
    /\ reg_cons[x].pc = "created"
    /\ reg_list' = Registered(reg_list, x).list
    /\ reg_cons' = [reg_cons EXCEPT ![x] = [pc |-> "registered",
                                            consumerID |-> Registered(reg_list, x).id]]
    /\ RegFrame

\* the list after unregisterConsumer(id): the first entry with that id is erased
Unregistered(list, id) ==
    IF \E k \in 1 .. Len(list) : list[k].id = id
    THEN LET i == CHOOSE k \in 1 .. Len(list) :
                     list[k].id = id /\ \A j \in 1 .. k - 1 : list[j].id # id
         IN  [k \in 1 .. Len(list) - 1 |-> IF k < i THEN list[k] ELSE list[k + 1]]
    ELSE list

\* stopConsumer: receiver->unregisterConsumer(consumerID), stop_consumer = true, the wait
\* for stopped and the delete.  A thread that has not yet set stopped = false does not
\* hold the caller back
RegStopConsumer(x) ==
    /\ reg_cons[x].pc \in {"created", "registered"}
    /\ reg_list' = Unregistered(reg_list, reg_cons[x].consumerID)
    /\ reg_cons' = [reg_cons EXCEPT ![x] =
                       [pc |-> IF @.pc = "created" THEN "late" ELSE "none", consumerID |-> 0]]
    /\ RegFrame

\* the thread of a consumer that was stopped and deleted before it ran: it executes
\* threadEntry on freed memory, and either registers the deleted object or does not
RegLateThread(x) ==
    /\ reg_cons[x].pc = "late"
    /\ \E registers \in BOOLEAN :
          reg_list' = IF registers THEN Registered(reg_list, x).list ELSE reg_list
    /\ reg_cons' = [reg_cons EXCEPT ![x] = RegIdle]
    /\ RegFrame

(***************************************************************************)
(* StationRawDoubleBuffer::write_data and process_data (StationDataRaw.cpp) *)
(* with the sample index of every slot.  A call is taken as one step: the   *)
(* slot the producer moves to is free, or freed by the persister during the *)
(* wait, or cleared after the wait.                                         *)
(***************************************************************************)
\* nof_samples / samples: the packets of one buffer
IdxPacketsPerBuffer == 2

\* the packet counters the network delivers; 0 does not occur
IdxCounters == 1 .. MaxCounter

\* clear(index) on the fields kept
IdxCleared == [sample_index |-> 0, ready |-> FALSE]

\* no process_data call
NoCopy == [slot |-> -1, offset |-> 0, packet_counter |-> 0]

IdxInit ==
    /\ ri_buf = [s \in RawSlots |-> IdxCleared]
    /\ ri_producer = 0
    /\ ri_consumer = 0
    /\ ri_last = NoCopy

\* what a step on these slots leaves alone
IdxFrame ==
    UNCHANGED <<ringVars, dbVars, chanVars, filtVars, netVars, daqVars, rawVars, beamVars,
                regVars, antVars>>

\* process_data(producer_index, packet_counter, ...): the samples are copied to
\* data + (packet_counter - sample_index) * samples * nof_pols (* nof_channels)
process_data(buf, producer_index, packet_counter) ==
    [slot |-> producer_index, offset |-> packet_counter - buf[producer_index].sample_index,
     packet_counter |-> packet_counter]

\* write_data for a packet with the given counter.  The update of sample_index after
\* process_data (line 432) applies on no path: sample_index <= packet_counter on each
write_data(packet_counter) ==
    LET cur == ri_buf[ri_producer].sample_index
    IN  IF cur = 0
        THEN \* line 347-351, 428-433
             LET b1 == [ri_buf EXCEPT ![ri_producer].sample_index = packet_counter]
             IN  /\ ri_buf' = b1
                 /\ ri_last' = process_data(b1, ri_producer, packet_counter)
                 /\ UNCHANGED ri_producer
        ELSE IF cur > packet_counter
        THEN \* line 354-371
             LET local_producer == IF ri_producer = 0 THEN RawBuffers - 1 ELSE ri_producer - 1
             IN  /\ ri_last' = IF ri_buf[local_producer].sample_index > packet_counter
                               THEN [NoCopy EXCEPT !.packet_counter = packet_counter]
                               ELSE process_data(ri_buf, local_producer, packet_counter)
                 /\ UNCHANGED <<ri_buf, ri_producer>>
        ELSE IF packet_counter - cur >= IdxPacketsPerBuffer
        THEN \* line 374-433
             LET local_producer == IF ri_producer < 2 THEN ri_producer - 2 + RawBuffers
                                   ELSE ri_producer - 2
                 b1 == IF ri_buf[local_producer].sample_index # 0
                       THEN [ri_buf EXCEPT ![local_producer].ready = TRUE] ELSE ri_buf
                 np == (ri_producer + 1) % RawBuffers
                 b2 == [b1 EXCEPT ![np] = [sample_index |-> cur + IdxPacketsPerBuffer,
                                           ready |-> FALSE]]
             IN  /\ ri_producer' = np
                 /\ ri_buf' = b2
                 /\ ri_last' = process_data(b2, np, packet_counter)
        ELSE \* line 428-433
             /\ ri_last' = process_data(ri_buf, ri_producer, packet_counter)
             /\ UNCHANGED <<ri_buf, ri_producer>>

\* processPacket hands a packet to write_data
IdxWriteData ==
    /\ \E packet_counter \in IdxCounters : write_data(packet_counter)
    /\ UNCHANGED ri_consumer
    /\ IdxFrame

\* the persister: read_buffer returns the ready buffer at consumer, release_buffer clears
\* it and moves consumer on
IdxRelease ==
    /\ ri_buf[ri_consumer].ready
    /\ ri_buf' = [ri_buf EXCEPT ![ri_consumer] = IdxCleared]
    /\ ri_consumer' = (ri_consumer + 1) % RawBuffers
    /\ UNCHANGED <<ri_producer, ri_last>>
    /\ IdxFrame

(***************************************************************************)
(* AntennaBuffer::processPacket after the discovery phase                   *)
(* (cdaq/AntennaBuffer.cpp), one configured tile: of a packet its           *)
(* buffer_index = (global_sample_index - base_sample) / nof_samples is      *)
(* kept, of a container the number of packets and the buffer_index of each  *)
(* packet added since the container was cleared.                            *)
(***************************************************************************)
\* the buffer_index of the packets that arrive
AntBuffers == 0 .. MaxAntBuffer

\* nof_containers of AntennaBuffer
ant_nof_containers == 4

AntContainers == 0 .. ant_nof_containers - 1

\* a container after clear()
AntCleared == [nof_packets |-> 0, buffers |-> {}]

AntInit ==
    /\ ant_containers = [c \in AntContainers |-> AntCleared]
    /\ ant_index = -1
    /\ ant_container = 0
    /\ ant_packets = 0

\* what a step of the antenna buffer consumer leaves alone
AntFrame ==
    UNCHANGED <<ringVars, dbVars, chanVars, filtVars, netVars, daqVars, rawVars, beamVars,
                regVars, idxVars>>

\* add_data on the fields kept
AntAdded(c, buffer_index) ==
    [nof_packets |-> c.nof_packets + 1, buffers |-> c.buffers \cup {buffer_index}]

\* (current_container - 1) % nof_containers in unsigned int
AntPrevContainer(cc) ==
    IF cc = 0 THEN (Pow2Mod(32, ant_nof_containers) + ant_nof_containers - 1) % ant_nof_containers
    ELSE (cc - 1) % ant_nof_containers

\* processPacket from "Initialise current buffer if needed" on
AntProcess(buffer_index) ==
    LET cbi == IF ant_index = -1 THEN buffer_index ELSE ant_index
        cc  == IF ant_index = -1 THEN buffer_index % ant_nof_containers ELSE ant_container
        nc  == (cc + 1) % ant_nof_containers
    IN  IF buffer_index = cbi
        THEN /\ ant_containers' = [ant_containers EXCEPT ![cc] = AntAdded(@, buffer_index)]
             /\ ant_index' = cbi
             /\ ant_container' = cc
        ELSE IF buffer_index + 1 = cbi
        THEN /\ ant_containers' = [ant_containers EXCEPT ![AntPrevContainer(cc)] =
                                      AntAdded(@, buffer_index)]
             /\ ant_index' = cbi
             /\ ant_container' = cc
        ELSE IF buffer_index > cbi
        THEN \* persist_container clears the container; then current_buffer_index += 1
             /\ ant_containers' = [ant_containers EXCEPT ![nc] = AntAdded(AntCleared, buffer_index)]
             /\ ant_index' = cbi + 1
             /\ ant_container' = nc
        ELSE /\ ant_index' = cbi
             /\ ant_container' = cc
             /\ UNCHANGED ant_containers

\* a packet arrives after the discovery phase
AntPacket ==
    /\ ant_packets < MaxAntPackets
    /\ ant_packets' = ant_packets + 1
    /\ \E buffer_index \in AntBuffers : AntProcess(buffer_index)
    /\ AntFrame

Init ==
    /\ RingInit /\ DBInit /\ ChanInit /\ FilterInit /\ NetInit /\ DaqInit
    /\ RawInit /\ BeamInit /\ RegInit /\ IdxInit /\ AntInit

\* several ingress workers and the reassembler on one ring
NextRing == (\E w \in Workers : WorkerStep(w)) \/ ConsumerStep

SpecRing == Init /\ [][NextRing]_vars

\* one ingress worker and the reassembler on one ring
NextRingSPSC == WorkerStep(1) \/ ConsumerStep

SpecRingSPSC == Init /\ [][NextRingSPSC]_vars

\* the correlator's double buffer, single channel (write_data_single_channel)
NextDB == WriterStep \/ CorrelatorStep

SpecDB == Init /\ [][NextDB]_vars

\* the correlator's double buffer, several channels (write_data)
NextDBChan == WriterChanStep \/ CorrelatorStep

SpecDBChan == Init /\ [][NextDBChan]_vars

\* the continuous channel consumer on its stream
NextChan == ChanStep

SpecChan == Init /\ [][NextChan]_vars

\* payloads on the filters of all consumer types
NextFilter == FilterPacket

SpecFilter == Init /\ [][NextFilter]_vars

\* a worker of the receiver on the frames of its socket
NextNet == NetStep

SpecNet == Init /\ [][NextNet]_vars

\* the client, the receive thread and the consumers' threads
NextDAQ == ClientStep \/ ReceiveThreadStep \/ (\E i \in Instances : ConsumerThreadStep(i))

SpecDAQ == Init /\ [][NextDAQ]_vars

\* the StationRawData thread, the persister and the client that stops them
NextRaw == RawConsumerStep \/ RawPersisterStep \/ RawClientStep

SpecRaw == Init /\ [][NextRaw]_vars

\* every thread that can take a step is scheduled again and again
SpecRawFair ==
    /\ SpecRaw
    /\ WF_vars(RawConsumerStep)
    /\ WF_vars(RawPersisterStep)
    /\ WF_vars(RawClientStep)

\* the command line, then the callbacks of the station beam persister
NextBeam == CaptureTimeOption \/ StationBeamCallback

SpecBeam == Init /\ [][NextBeam]_vars

\* the client and the threads of the consumers on the consumer list of one receiver
NextReg ==
    \E x \in RegNames :
        RegStartConsumer(x) \/ RegThreadRegisters(x) \/ RegStopConsumer(x) \/ RegLateThread(x)

SpecReg == Init /\ [][NextReg]_vars

\* the StationRawData thread writing packets, and the persister
NextIdx == IdxWriteData \/ IdxRelease

SpecIdx == Init /\ [][NextIdx]_vars

\* the antenna buffer consumer on the packets that arrive
NextAnt == AntPacket

SpecAnt == Init /\ [][NextAnt]_vars

(***************************************************************************)
(* Properties of the RingBuffer                                            *)
(***************************************************************************)
\* C1: in every reachable state, pushes of one or several ingress workers
\* interleaved with the consumer's pull / pull_ready, 0 <= full_cells <= nof_cells.
C1_OccupancyBound == 0 <= full_cells /\ full_cells <= nof_cells

\* the step of worker w is the test of line 94 (of a new call or of a further round)
IsCheckStep(w) ==
    /\ w_pc[w] \in {"idle", "check"}
    /\ w_pc'[w] # w_pc[w] \/ w_seq'[w] # w_seq[w]

\* the step of worker w ends its push call with false
ReturnsFalse(w) == IsCheckStep(w) /\ w_pc'[w] = "idle"

\* the step of worker w copies its packet into a cell
StoresPacket(w) == w_pc[w] = "copy" /\ w_pc'[w] # "copy"

\* the packet worker w has stored and the size it gave the cell are still in the cell
StoredPacketInCell(w) ==
    /\ cell_data[w_local[w]] = Packet(w, w_seq[w])
    /\ ring_size[w_local[w]] = DataSize(Packet(w, w_seq[w]))

C3_PushNeverWaitsForConsumer ==
    \A w \in Workers : ~(w_pc[w] = "enter" /\ ring_lock[w_local[w]] = ConsumerTid)

\* C4: the packets one worker pushed successfully are returned by the consumer's
\* successive pulls in the order in which they were pushed.
C4_Fifo ==
    \A i, j \in DOMAIN pulled :
        (i < j /\ PacketWorker(pulled[i]) = PacketWorker(pulled[j]))
            => PacketSeq(pulled[i]) < PacketSeq(pulled[j])

\* C5: from the return of pull / pull_timeout to pull_ready the borrowed cell keeps
\* the bytes and the length it was returned with, and they are those of one
\* accepted push.
C5_BorrowedCellStable ==
    c_pc = "hold" =>
        /\ cell_data[rb_consumer] = c_snap[1]
        /\ ring_size[rb_consumer] = c_snap[2]
        /\ c_snap[1] \in accepted
        /\ c_snap[2] = DataSize(c_snap[1])

\* C5, witness: the consumer holds a cell while a worker that has wrapped round to
\* that very cell is inside push
C5_Witness ==
    /\ c_pc = "hold"
    /\ \E w \in Workers : w_pc[w] = "enter" /\ w_local[w] = rb_consumer

(***************************************************************************)
(* Properties of the DoubleBuffer                                          *)
(***************************************************************************)
\* C6: while the consumer is between read_buffer and release_buffer on a slot, the
\* ready flag of that slot is true: read_buffer returns only a ready slot, and the
\* flag stays true until the consumer calls release_buffer.
C6_ReadyWhileReading == k_pc = "reading" => db_buf[db_consumer].ready

\* the producer resets (takes over) slot s in this step
ProducerResets(s) ==
    /\ p_pc \in {"take", "wait_m"}
    /\ p_pc' = "copy"
    /\ db_producer = s

\* C7: the producer never resets or takes over a slot while the consumer is between
\* read_buffer and release_buffer on it; the consumer holds the slot's mutex for that
\* whole interval.
C7_SlotArbitration ==
    [][k_pc = "reading" => /\ ~ProducerResets(db_consumer)
                           /\ db_mutex[db_consumer] = CorrelatorTid]_vars

\* C7, the first half alone: no reset or take over of the slot the consumer reads.
C7_NoTakeOverWhileReading == [][k_pc = "reading" => ~ProducerResets(db_consumer)]_vars

\* C8: at a channel change or buffer boundary the producer has waited at most the
\* budget of 1 ms (the time after which the overwrite warning is logged) for the
\* next slot; when the budget is used up it stops waiting.
C8_BoundedWait == p_pc \in {"wait", "wait_m"} => p_index * tv_nsec <= WarnLimit

\* slot s is being filled by the producer and not yet marked ready
Writing(s) ==
    /\ ~db_buf[s].ready
    /\ db_buf[s].index # -1 \/ db_buf[s].channel # -1

\* the slots in the WRITING state
WritingSlots == {s \in Slots : Writing(s)}

\* C9: at any instant at most one slot is in the WRITING state.
C9_OneWriting == Cardinality(WritingSlots) <= 1

\* read_buffer returns a buffer in this step
ReturnsBuffer == k_pc = "idle" /\ k_pc' = "reading"

\* the consumer was blocked while the producer wrote the whole stream of MaxBuffers
\* full buffers, in order and without a pause, and the reassembler then saw the stream
\* stop (finish_write) before the consumer's first read_buffer call
BlockedMeanwhile == k_start' = "stalled" /\ s_ref = -1

\* C10: with depth 4, when the consumer was blocked while the producer completed
\* MaxBuffers (6) full buffers, every buffer the consumer then receives is one of the
\* 4 most recently produced ones, and they come in the order they were produced.
C10_RecentInOrder ==
    [][(ReturnsBuffer /\ BlockedMeanwhile) =>
          /\ BufferOf(k_last') >= MaxBuffers - nbuffers
          /\ k_last # -1 => k_last' > k_last]_vars

\* the step is a finish_write call
FinishStep == p_pc = "idle" /\ s_ref' = -1 /\ s_irregular' = s_irregular + 1

\* slot s holds packets written since its last reset
HoldsPackets(s) == db_buf[s].nof_packets > 0

\* C11: after finish_write the buffer the producer was filling (the slot at producer,
\* when packets were written into it) has ready = true, so that read_buffer returns
\* it without a further packet.
C11_FinishMarksReady ==
    [][FinishStep => (HoldsPackets(db_producer) => db_buf'[db_producer].ready)]_vars

\* the step is a processPacket call that finds packet_time < reference_time
LateStep == ch_last' # ch_last /\ ch_last'.late

\* the container before container c in the rotation
Before(c) == (c + nof_containers - 1) % nof_containers

FireStep == ch_last' # ch_last /\ ch_last'.fires

\* C13: when the boundary trigger fires, current_container advances by exactly one (mod N)
\* and the container just stepped off is persisted if it holds data.
C13_BoundaryPersists ==
    [][FireStep =>
          /\ current_container' = (current_container + 1) % nof_containers
          /\ containers[current_container].nof_packets > 0
               => ch_last'.persisted = current_container]_vars

\* C13 as amended: when the boundary trigger fires and current_buffer comes back to 0,
\* current_container advances by exactly one (mod N) and one container is persisted if it
\* holds data: the one stepped off when buffers are skipped, else the one stepped onto (the
\* oldest of the rotation); when current_buffer does not come back to 0 nothing moves.
C13_BoundaryTurns ==
    [][FireStep =>
          IF current_buffer' = 0
          THEN /\ current_container' = (current_container + 1) % nof_containers
               /\ LET p == IF nof_buffer_skips # 0 THEN current_container
                           ELSE current_container'
                  IN  /\ ch_last'.persisted \in {-1, p}
                      /\ containers[p].nof_packets > 0 <=> ch_last'.persisted = p
                      /\ \A c \in Containers \ {p, current_container'} :
                            containers'[c] = containers[c]
          ELSE /\ current_container' = current_container
               /\ ch_last'.persisted = -1
               /\ containers' = containers]_vars

\* a boundary without buffer skips has persisted the container the consumer stepped onto,
\* filled one rotation earlier
C13_Witness ==
    /\ ch_last.fires
    /\ nof_buffer_skips = 0
    /\ ch_last.persisted = current_container
    /\ containers[PrevContainer(current_container)].nof_packets > 0

\* C14: with nof_buffer_skips = 3, after a persisted buffer the next three boundaries
\* advance current_buffer without persisting and the fourth persists: one buffer in every
\* four is delivered.
C14_OneInFour ==
    [][(FireStep /\ nof_buffer_skips = 3 /\ ch_since # -1) =>
          (ch_last'.persisted # -1 <=> ch_since = 3)]_vars

\* the step processes the next packet of the stream, and every packet processed so far
\* arrived in the order of sending (a packet held back has not arrived)
InOrderStep ==
    /\ ch_next' = ch_next + 1
    /\ ch_last'.k = ch_next
    /\ ch_last.k # -1
    /\ ch_irregular = 0 \/ ch_held # {}

\* C15: for wire counters that arrive with at most one 24-bit wrap between adjacent pivot
\* packets, the reconstructed counters (wire counter + rollover offset) form a
\* non-decreasing sequence.
C15_Monotonic ==
    [][InOrderStep => ch_last'.packet_counter >= ch_last.packet_counter]_vars

\* the packet processed last was sent after the wire counter wrapped, and no packet is
\* still on its way
PastWrap == ch_held = {} /\ ch_last.k >= WrapAfter * nof_tiles

\* C16: rollover_counter is incremented exactly once per wrap of the wire counter: after
\* the 24-bit counter has been driven past 2^24 once, rollover_counter = 1.
C16_CountsWraps == PastWrap => rollover_counter = 1

\* the step persists a container and writes no packet into it afterwards
PersistStep ==
    /\ ch_last' # ch_last
    /\ ch_last'.persisted # -1
    /\ ch_last'.target # ch_last'.persisted

\* C17: after persist_container the container is in the state of a freshly constructed
\* one: sample memory all zero, tile map empty, timestamp at the +infinity sentinel, packet
\* count 0.
C17_PersistLeavesFresh ==
    [][PersistStep =>
          LET b == containers'[ch_last'.persisted]
          IN  /\ \A i \in TileRows : \A s \in PacketSlots : b.data[i][s] = 0
              /\ b.tile_map = <<>>
              /\ b.timestamp = DBL_MAX
              /\ b.nof_packets = 0]_vars

\* C18: between two persists of a container each packet slot is written at most once, so
\* that the packets written never exceed what the container holds.
C18_WrittenOnce ==
    \A c \in Containers :
       /\ \A i \in TileRows : \A s \in PacketSlots : ch_writes[c][i][s] <= 1
       /\ containers[c].nof_packets <= nof_tiles * ChanPacketsPerBuffer

\* C19: every packet is accepted by the packet filter of at most one reassembler family:
\* no capture mode is accepted by the filters of two different consumer types.
C19_FilterExclusive == Cardinality(flt_accept) <= 1

\* C19 as amended: no packet is accepted by the filters of two different families that
\* reassemble a capture mode into containers; the correlator filter accepts the channel
\* modes as well and shares each of its packets with the burst or the continuous channel
\* filter.
C19_ContainerFiltersExclusive ==
    /\ Cardinality(flt_accept \cap ContainerFamilies) <= 1
    /\ "correlator" \in flt_accept
         => flt_accept \cap {"burstchannel", "continuouschannel"} # {}

\* a continuous channel packet went through the filters: the continuous channel filter
\* and the correlator filter accepted it
C19_Witness ==
    /\ flt_pkt.spead_ok
    /\ flt_pkt.mode = 5
    /\ flt_accept = {"continuouschannel", "correlator"}

\* the destination port of a frame, read in network byte order
WirePort(frame) == 256 * frame.dest[1] + frame.dest[2]

C21_ListGuarded ==
    /\ mutex_lock # 0 => (rw_pc # "dispatch" /\ api_pc # "unreg_search")
    /\ Len(rx_consumers) <= MAX_CONSUMERS

\* C22: after any sequence of add_port calls on a live receiver the allowlist holds at
\* most 16 entries (num_ports <= 16, every write lands inside the 16-entry table), and a
\* port once added is never removed.
C22_PortTableBound ==
    [][/\ Len(ports') <= PortsSize
       /\ Len(ports') >= Len(ports)
       /\ \A i \in 1 .. Len(ports) : ports'[i] = ports[i]]_vars

\* C23: stop_receiver returns only after every ingress worker thread has left its
\* receive loop and been joined; after it returns no worker pushes any packet into any
\* ring.  The receiver pointer is null from the return of stopReceiver to the next
\* startReceiver.
C23_StopJoinsWorkers ==
    receiver = 0 => (rw_pc = "none" /\ ~orphaned)

\* C25: stop_consumer(name) returns, and the consumer instance is destroyed, only after
\* that consumer's reassembler thread has left threadEntry, also when stop_consumer is
\* called immediately after start_consumer, before the new thread has begun to run: no
\* thread is inside threadEntry on an object that is destroyed.
C25_StopWaitsForThread ==
    \A i \in Instances : ~inst[i].alive => inst[i].pc \in {"none", "done"}

\* C26: at any time the process has at most one live PacketIngress: calling
\* start_receiver while a receiver is already running neither creates a second running
\* receiver nor orphans the running one.
C26_OneReceiver == ~orphaned

\* C27: calling initialise_consumer on a consumer that has already been initialised
\* successfully returns an error code (not SUCCESS), whatever the configuration string.
C27_DoubleInitialiseFails ==
    (api_pc = "idle" /\ consumers # 0 /\ inst[consumers].initialised) =>
        \A parses \in BOOLEAN, complete \in BOOLEAN :
            InitialiseConsumerResult(parses, complete) # SUCCESS

\* what the next call of the script returns in this state, the configuration string being
\* one that parses and holds the consumer's keys
ScriptedResult ==
    CASE Script[script + 1] = "startReceiver" -> StartReceiverResult
      [] Script[script + 1] = "addReceiverPort" -> AddReceiverPortResult
      [] Script[script + 1] = "loadConsumer" -> LoadConsumerResult
      [] Script[script + 1] = "initialiseConsumer" -> InitialiseConsumerResult(TRUE, TRUE)
      [] Script[script + 1] = "startConsumer" -> StartConsumerResult
      [] Script[script + 1] = "stopConsumer" -> StopConsumerResult
      [] Script[script + 1] = "stopReceiver" -> StopReceiverResult

C29_FileRotation ==
    /\ bm_last.counter # -1 =>
          (bm_last.opened <=> (bm_last.counter - skip) % cutoff_counter = 0)
    /\ (bm_closed.bytes # -1 /\ ~bm_closed.foreign) =>
          bm_closed.bytes = cutoff_counter * buffer_size

\* C30: whatever order the buffers of one file arrive in, every written buffer occupies
\* the byte range starting at (buffer_counter - counter of the file's first buffer) x
\* buffer_bytes, and after each callback the file position is where the next expected
\* buffer belongs.  Stated for a file that was handed buffers of its own only: each of
\* them is written.
C30_Placement ==
    (bm_last.counter # -1 /\ ~bm_foreign) =>
        /\ bm_last.offset = (bm_last.buffer_counter - bm_last.first) * buffer_size
        /\ ~bm_exited
        /\ bm_pos = (bm_counter - bm_first) * buffer_size

\* C24: once its stop flag has been set, every long-running thread terminates within its
\* longest suspension point; none stays blocked forever on a spinlock, mutex or wait
\* loop.  For the thread of the station raw consumer and its persister: stop_consumer
\* leads to the consumer thread having left its loops, stop_thread to the persister
\* having returned.
C24_StopTerminates ==
    /\ raw_stop_consumer ~> (raw_w_pc = "exited")
    /\ raw_stop_thread ~> (raw_p_pc = "exited")

(***************************************************************************)
(* Delivery through the RingBuffer                                         *)
(***************************************************************************)
\* every packet a worker can push
PacketIds == {Packet(w, k) : w \in Workers, k \in 1..MaxPush}

\* the packet was returned by a pull / pull_timeout
Pulled(p) == \E i \in DOMAIN pulled : pulled[i] = p

\* The workers and the reassembler are threads that get the processor again and
\* again. pull_timeout measures its timeout from the start of the call (line 146,
\* 159-162), so a call that finds an empty cell while full_cells != 0 moves on to
\* the next cell (line 168) before the timeout can end it: a consumer that keeps
\* pulling steps over again and again.
SpecRingFair ==
    /\ SpecRing
    /\ \A w \in Workers : WF_vars(WorkerStep(w))
    /\ WF_vars(ConsumerStep)
    /\ SF_vars(PullStepOver)

WriterUnlocks(s) ==
    \/ raw_w_pc = "take" /\ raw_w_pc' = "loop" /\ s = raw_consumer
    \/ raw_w_pc = "wait" /\ raw_w_pc' = "relock" /\ s = raw_producer

\* the step is the mutex->unlock() of release_buffer on slot s
PersisterUnlocks(s) == raw_p_pc = "process" /\ raw_p_pc' = "advance" /\ s = raw_consumer

\* C33: lock discipline of the slot mutexes: a thread unlocks only a mutex it holds,
\* and write_data returns with every mutex it locked released (each lock is released
\* by the thread that took it, on the same slot).
C33_LockDiscipline ==
    /\ [][\A s \in RawSlots :
            /\ WriterUnlocks(s) => raw_mutex[s] = "writer"
            /\ PersisterUnlocks(s) => raw_mutex[s] = "persister"]_vars
    /\ [](raw_w_pc \in {"loop", "exited"} => \A s \in RawSlots : raw_mutex[s] # "writer")

(***************************************************************************)
(* The life cycle of a DoubleBuffer slot                                   *)
(***************************************************************************)
\* the state of slot s, read from its fields: EMPTY has channel == -1 and index == -1,
\* WRITING holds data and is not ready, READY is ready, DRAINING is ready and is the
\* slot the consumer got from read_buffer and has not yet released
SlotState(s) ==
    IF db_buf[s].ready
    THEN IF k_pc \in {"reading", "release"} /\ db_consumer = s THEN "DRAINING" ELSE "READY"
    ELSE IF db_buf[s].index = -1 /\ db_buf[s].channel = -1 THEN "EMPTY" ELSE "WRITING"

\* the steps of the cycle
SlotCycle == {<<"EMPTY", "WRITING">>, <<"WRITING", "READY">>, <<"READY", "DRAINING">>,
              <<"DRAINING", "EMPTY">>}

\* C40: a slot changes state only along EMPTY -> WRITING -> READY -> DRAINING -> EMPTY,
\* or by the producer taking the slot over after its wait, and then the overwrite
\* warning has been logged.
C40_SlotLifecycle ==
    [][\A s \in Slots :
          \/ SlotState(s)' = SlotState(s)
          \/ <<SlotState(s), SlotState(s)'>> \in SlotCycle
          \/ ProducerResets(s) /\ p_warned]_vars

(***************************************************************************)
(* The receiver and the consumers that point to it                         *)
(***************************************************************************)
\* the client is inside receiver->unregisterConsumer, called by DataConsumer::stopConsumer
InUnregister == api_pc \in {"unreg_search", "unreg_lock", "unreg_erase"}

\* the thread of consumer i is inside receiver->registerConsumer
InRegister(i) == inst[i].pc = "reg_locked"

\* C39: no consumer operation uses the receiver after stopReceiver has deleted it:
\* neither the unregisterConsumer call of stopConsumer nor the registerConsumer call of
\* a consumer's thread runs on a consumer whose receiver pointer names the deleted
\* NetworkReceiver.
C39_ReceiverLifetime ==
    /\ InUnregister => inst[consumers].rx # "deleted"
    /\ \A i \in Instances : InRegister(i) => inst[i].rx # "deleted"

(***************************************************************************)
(* Delivery from the StationRawDoubleBuffer                                *)
(***************************************************************************)
\* a write_data call that has begun runs to its end
WriteCompletes == WriteLock \/ WriteWait \/ WriteOverwrite \/ WriteTake

\* The persister is scheduled again and again and a write_data call that has begun is
\* completed, but the packets need not keep coming: the input stream may stop at any
\* packet (no fairness for WriteInBuffer and WriteBoundary, the arrival of a packet).
SpecRawStall ==
    /\ SpecRaw
    /\ WF_vars(RawPersisterStep)
    /\ WF_vars(WriteCompletes)

\* read_buffer has returned slot s to the persister
ReadByPersister(s) == raw_p_pc = "process" /\ raw_consumer = s

\* C35: every buffer into which write_data wrote a packet is eventually returned by
\* read_buffer to the persister or else is overwritten by the producer, also a buffer
\* written last before the stream stops, as long as the persister keeps reading (the
\* consumer is not stopped).
C35_EventualDelivery ==
    \A s \in RawSlots :
        raw_buffer[s].sample_index ~>
            (ReadByPersister(s) \/ ~raw_buffer[s].sample_index \/ raw_stop_consumer)

\* the ingress worker is inside the loop over the consumer list of receive_loop, at the
\* entry of consumer i: it calls the filter of i and pushes into the ring buffer of i
DispatchesTo(i) == rw_pc = "dispatch" /\ rw_target = i

\* C34: no use after destruction - once stopConsumer has returned for a consumer and
\* the object is deleted, no ingress worker is calling its packet filter or pushing into
\* its ring buffer, also not a worker that began the dispatch before the unregistration
C34_NoUseAfterDestruction ==
    \A i \in Instances : DispatchesTo(i) => inst[i].alive

\* a container holds packets that were not passed to the callback
Unpersisted(c) == containers[c].nof_packets > 0

\* C36: every container that received a packet is passed to the callback, also the
\* containers that still hold data when the stream ends: once onStreamEnd has returned
\* no container holds packets that were never persisted
C36_ContainersPersisted ==
    ch_ended => \A c \in Containers : ~Unpersisted(c)

\* the step in which stopConsumer of consumer x unregisters it
StopsConsumer(x) ==
    /\ reg_cons[x].pc \in {"created", "registered"}
    /\ reg_cons'[x].pc \in {"none", "late"}

\* the consumer list without the entries of consumer x
WithoutConsumer(list, x) ==
    LET Other(e) == e.owner # x IN SelectSeq(list, Other)

\* C32: the ids of the registered consumers are pairwise distinct, and stopping consumer
\* x removes exactly the entries of x from the consumer list and leaves the entries of
\* every other consumer, also after earlier unregistrations and when x is stopped before
\* its thread has registered
C32_StopRemovesExactlyOwn ==
    /\ [](\A i, j \in DOMAIN reg_list : i # j => reg_list[i].id # reg_list[j].id)
    /\ [][\A x \in RegNames :
             StopsConsumer(x) => reg_list' = WithoutConsumer(reg_list, x)]_vars

\* process_data has copied a packet into a slot
Copied == ri_last.slot # -1

\* C37: every copy of packet samples lies inside the data array of the target slot:
\* whenever process_data runs, 0 <= packet_counter - sample_index < nof_samples / samples
C37_InBoundsWrites ==
    Copied => 0 <= ri_last.offset /\ ri_last.offset < IdxPacketsPerBuffer

\* the packets in container c are all of the buffer with the given index
HoldsOnly(c, buffer_index) == ant_containers[c].buffers \subseteq {buffer_index}

\* C38: after discovery every packet is added to the container that holds the buffer
\* with the packet's own buffer_index: the current container holds packets of
\* current_buffer_index only, and no container mixes packets of different buffers
C38_ContainerConsistency ==
    /\ ant_index # -1 => HoldsOnly(ant_container, ant_index)
    /\ \A c \in AntContainers : \E b \in AntBuffers : HoldsOnly(c, b)

====
